---- MODULE Spec2Model ----
(***************************************************************************)
(* Chroma, a modal temperament designer: the document state held by App    *)
(* (src/src/App.tsx), the music helpers (src/unnamed/part_001, imported as *)
(* ./lib/music) and the snapshot (de)serializer                            *)
(* (src/src/lib/temperament.ts).                                           *)
(*                                                                         *)
(* Numbers.  A ratio is a binary fixed-point number: the integer n stands  *)
(* for n / Scale.  Doubling is exact, as it is for an IEEE double, and     *)
(* halving is exact for every value of the expression table below.  An     *)
(* absent number (null) is the empty tuple and a present one is <<n>>.     *)
(*                                                                         *)
(* Arrays.  The pitch array keeps the source's 0-based indices: it is a    *)
(* function on 0..n-1.  The interval array is a sequence (only its order   *)
(* matters to the code).                                                   *)
(***************************************************************************)
EXTENDS Integers, Sequences, FiniteSets, TLC

\* ------------------------------------------------------------------------
\* Bounds of the model.
\* ------------------------------------------------------------------------
\* handlers run per behaviour of Spec
MaxOps == 3
\* rows the interval list may grow to (handleAddInterval is capped here)
MaxIntervals == 3
\* document loads that may be awaiting their response at one time
MaxInFlight == 2
\* interval rows of an interval list drawn by InitAutofill
MaxAutofillRows == 3
\* the numbers SpecNormalize gives to normalizeToOctave are m * 2^j / Scale
\* for m in 1..MaxMantissa and j in 0..MaxShift
MaxMantissa == 15
MaxShift == 25

\* ------------------------------------------------------------------------
\* Numbers
\* ------------------------------------------------------------------------
\* one unit is 2^-24
Scale == 2 ^ 24

Null == << >>
Some(n) == << n >>
IsNull(x) == x = << >>
Val(x) == x[1]

Abs(n) == IF n < 0 THEN -n ELSE n

\* music: constants
MIN_KEY_NOTE == 69
MAX_KEY_NOTE == 80
TOTAL_PITCHES == 12
\* 1e-6 is 16.777216 units, never a whole number of them: for a whole number
\* d of units, d > 1e-6 is d > OCTAVE_EPSILON and d < 1e-6 is d <= OCTAVE_EPSILON.
OCTAVE_EPSILON == Scale \div 1000000

ExceedsEpsilon(d) == d > OCTAVE_EPSILON
BelowEpsilon(d) == d <= OCTAVE_EPSILON

\* Math.pow(2, i / 12) for i = 1..11, rounded to the unit
TwelfthPower == << 17774841, 18831788, 19951585, 21137968, 22394897, 23726566,
                   25137421, 26632170, 28215802, 29893600, 31671166 >>

\* ------------------------------------------------------------------------
\* Expressions
\* ------------------------------------------------------------------------
\* String.prototype.trim on the expression texts of the model
Trim(s) ==
    CASE s = " " -> ""
      [] s = " 3/2 " -> "3/2"
      [] OTHER -> s

\* `2^(${index}/12)`
TwelfthPowerText(index) == "2^(" \o ToString(index) \o "/12)"

\* mathjs evaluate(trimmed) followed by the Number(...) conversion: what the
\* evaluator returns for each expression text the model uses.
\*   [kind |-> "number", n |-> v]   a finite number v / Scale
\*   [kind |-> "infinite"]          Infinity or NaN
\*   [kind |-> "throws"]            evaluate throws
evaluate(trimmed) ==
    CASE trimmed = "1" -> [kind |-> "number", n |-> Scale]
      [] trimmed = "2" -> [kind |-> "number", n |-> 2 * Scale]
      [] trimmed = "3" -> [kind |-> "number", n |-> 3 * Scale]
      [] trimmed = "4" -> [kind |-> "number", n |-> 4 * Scale]
      [] trimmed = "3/2" -> [kind |-> "number", n |-> 3 * (Scale \div 2)]
      [] trimmed = "3/4" -> [kind |-> "number", n |-> 3 * (Scale \div 4)]
      [] trimmed = "3/8" -> [kind |-> "number", n |-> 3 * (Scale \div 8)]
      [] trimmed = "5/4" -> [kind |-> "number", n |-> 5 * (Scale \div 4)]
      [] trimmed = "1.49" -> [kind |-> "number", n |-> 24998052]
      \* 1.5 + 1e-7: two units above 3/2
      [] trimmed = "1.5000001" -> [kind |-> "number", n |-> 3 * (Scale \div 2) + 2]
      \* 1.5 + 6e-7 and 1.5 + 12e-7: ten and twenty units above 3/2
      [] trimmed = "1.5000006" -> [kind |-> "number", n |-> 3 * (Scale \div 2) + 10]
      [] trimmed = "1.5000012" -> [kind |-> "number", n |-> 3 * (Scale \div 2) + 20]
      \* 1 + 5e-7 and 2 - 5e-7: eight units from 1 and from 2
      [] trimmed = "1.0000005" -> [kind |-> "number", n |-> Scale + 8]
      [] trimmed = "1.9999995" -> [kind |-> "number", n |-> 2 * Scale - 8]
      \* 1 + 2e-5: outside the tolerance around 1
      [] trimmed = "1.00002" -> [kind |-> "number", n |-> Scale + 336]
      \* halfway between the equal-tempered slots 8 and 9
      [] trimmed = "(2^(8/12)+2^(9/12))/2" ->
            [kind |-> "number", n |-> (TwelfthPower[8] + TwelfthPower[9]) \div 2]
      [] trimmed = "0" -> [kind |-> "number", n |-> 0]
      [] trimmed = "-3/2" -> [kind |-> "number", n |-> -3 * (Scale \div 2)]
      [] trimmed = "1/0" -> [kind |-> "infinite"]
      [] \E i \in 1..11 : trimmed = TwelfthPowerText(i) ->
            [kind |-> "number",
             n |-> TwelfthPower[CHOOSE i \in 1..11 : trimmed = TwelfthPowerText(i)]]
      [] OTHER -> [kind |-> "throws"]

\* music: resolveExpression
resolveExpression(expression) ==
    LET trimmed == Trim(expression)
        evaluated == evaluate(trimmed)
    IN  IF trimmed = ""
        THEN [value |-> Null, error |-> Null]
        ELSE IF evaluated.kind = "throws"
        THEN [value |-> Null, error |-> Some("Unable to parse expression")]
        ELSE IF evaluated.kind = "infinite"
        THEN [value |-> Null, error |-> Some("Result is not a finite number")]
        ELSE [value |-> Some(evaluated.n), error |-> Null]

\* a loop that also doubles 1
RECURSIVE DoubleWhileAtMostOne(_)
DoubleWhileAtMostOne(normalized) ==
    IF normalized <= Scale
    THEN DoubleWhileAtMostOne(normalized * 2)
    ELSE normalized

\* music: normalizeToOctave, the loop `while (normalized < 1) normalized *= 2`
RECURSIVE DoubleWhileBelowOne(_)
DoubleWhileBelowOne(normalized) ==
    IF normalized < Scale
    THEN DoubleWhileBelowOne(normalized * 2)
    ELSE normalized

\* an `if` in place of the loop
HalveOnceAboveTwo(normalized) ==
    IF normalized > 2 * Scale THEN normalized \div 2 ELSE normalized

\* a loop that also halves 2
RECURSIVE HalveWhileAtLeastTwo(_)
HalveWhileAtLeastTwo(normalized) ==
    IF normalized >= 2 * Scale
    THEN HalveWhileAtLeastTwo(normalized \div 2)
    ELSE normalized

\* music: normalizeToOctave, the loop `while (normalized > 2) normalized /= 2`
RECURSIVE HalveWhileAboveTwo(_)
HalveWhileAboveTwo(normalized) ==
    IF normalized > 2 * Scale
    THEN HalveWhileAboveTwo(normalized \div 2)
    ELSE normalized

\* music: normalizeToOctave (every number of the model is finite)
normalizeToOctave(value) ==
    IF IsNull(value) \/ Val(value) <= 0
    THEN Null
    ELSE Some(HalveWhileAboveTwo(DoubleWhileBelowOne(Val(value))))

\* music: getDefaultExpression
getDefaultExpression(index) ==
    IF index = 0 THEN "1" ELSE TwelfthPowerText(index)

\* ------------------------------------------------------------------------
\* Document model
\* ------------------------------------------------------------------------
\* music: createIntervalDefinition; id is the crypto.randomUUID() drawn for it
createIntervalDefinition(id, description, expression, disabled) ==
    [id |-> id, description |-> description, expression |-> expression,
     disabled |-> disabled]

\* music: createPitchDefinition
createPitchDefinition(id, description, expression, locked) ==
    [id |-> id, description |-> description, expression |-> expression,
     locked |-> locked]

\* music: getDefaultPitchDefinitions; the ids drawn are firstId .. firstId + 11
getDefaultPitchDefinitions(firstId) ==
    [index \in 0..(TOTAL_PITCHES - 1) |->
        createPitchDefinition(firstId + index, "",
                              IF index = 0 THEN "1" ELSE TwelfthPowerText(index),
                              index = 0)]

\* Math.pow(2, semitones / 12) for a whole number of semitones
PowerOfTwoTwelfths(semitones) ==
    LET octave == semitones \div 12
        step == semitones % 12
        ratio == IF step = 0 THEN Scale ELSE TwelfthPower[step]
    IN  IF octave >= 0 THEN ratio * (2 ^ octave) ELSE ratio \div (2 ^ (-octave))

\* Frequencies are in hundredths of a hertz.
\* frequency * ratio / Scale, rounded down, in two halves of the ratio
TimesRatio(frequency, ratio) ==
    (frequency * (ratio \div 4096) + (frequency * (ratio % 4096)) \div 4096) \div 4096

deriveBaseFrequency(concertPitch, midiNote) ==
    TimesRatio(concertPitch, PowerOfTwoTwelfths(midiNote - 69))

\* App: computedIntervals
computedIntervalsOf(intervals) ==
    [k \in DOMAIN intervals |->
        LET interval == intervals[k]
            resolved == resolveExpression(interval.expression)
        IN  [id |-> interval.id,
             description |-> interval.description,
             expression |-> interval.expression,
             disabled |-> interval.disabled,
             resolved |-> resolved.value,
             normalized |-> normalizeToOctave(resolved.value),
             error |-> resolved.error]]

\* App: baseFrequency (every number of the model is finite)
baseFrequencyOf(frequency, pitch, root) ==
    IF frequency > 0 THEN frequency ELSE deriveBaseFrequency(pitch, root)

\* computedPitches: pitch.locked ? 1 : value
ResolvedOf(pitch, value) == IF pitch.locked THEN Some(Scale) ELSE value

\* computedPitches: pitch.locked || index === 0 ? 1 : normalizeToOctave(resolved ?? null)
NormalizedAt(pitch, index, resolved) ==
    IF pitch.locked \/ index = 0 THEN Some(Scale) ELSE normalizeToOctave(resolved)

\* a view that reports the error of every expression
ErrorOfExpression(pitch, error) == error

\* computedPitches: error: pitch.locked ? null : error
ErrorOf(pitch, error) == IF pitch.locked THEN Null ELSE error

\* a reference tuned to A4 = 432 Hz
standardFrequencyAt432(midiNote) == deriveBaseFrequency(43200, midiNote)

\* computedPitches: standardFrequency = 440 * Math.pow(2, (midiNote - 69) / 12)
standardFrequencyOf(midiNote) == deriveBaseFrequency(44000, midiNote)

\* The logarithm works on ratios with 12 fractional bits.
\* the whole octaves in target / standard: the k with
\* standard * 2^k <= target < standard * 2^(k + 1), for positive frequencies
RECURSIVE OctavesBetween(_, _)
OctavesBetween(target, standard) ==
    IF target < standard THEN OctavesBetween(2 * target, standard) - 1
    ELSE IF target >= 2 * standard THEN OctavesBetween(target, 2 * standard) + 1
    ELSE 0

\* target / standard * 2^(-k), in [1, 2), with 12 fractional bits
MantissaBetween(target, standard) ==
    LET k == OctavesBetween(target, standard)
    IN  IF k >= 0 THEN (target * 4096) \div (standard * (2 ^ k))
        ELSE (target * (2 ^ (-k)) * 4096) \div standard

\* the fractional bits of log2(x / 4096) for x / 4096 in [1, 2), by squaring
RECURSIVE LogBits(_, _)
LogBits(x, bit) ==
    IF bit > 12 THEN 0
    ELSE LET square == (x * x) \div 4096
         IN  IF square >= 8192
             THEN 2 ^ (12 - bit) + LogBits(square \div 2, bit + 1)
             ELSE LogBits(square, bit + 1)

\* (1200 * Math.log(target / standard)) / Math.log(2), in hundredths of a cent
CentsBetween(target, standard) ==
    (120000 * (OctavesBetween(target, standard) * 4096
               + LogBits(MantissaBetween(target, standard), 1))) \div 4096

\* computedPitches: centsOffset = targetFrequency && targetFrequency > 0 ? ... : null
centsOffsetOf(targetFrequency, standardFrequency) ==
    IF IsNull(targetFrequency) \/ Val(targetFrequency) <= 0 THEN Null
    ELSE Some(CentsBetween(Val(targetFrequency), standardFrequency))

\* a view whose target is the base frequency whatever the ratio
targetFrequencyOfBaseOnly(base, normalized) ==
    IF IsNull(normalized) THEN Null ELSE Some(base)

\* computedPitches: targetFrequency = normalized !== null && typeof normalized
\* === 'number' ? baseFrequency * normalized : null
targetFrequencyOf(base, normalized) ==
    IF IsNull(normalized) THEN Null ELSE Some(TimesRatio(base, Val(normalized)))

\* App: computedPitches, for the pitch array, keyRoot and baseFrequency given
\* (noteName and isBlackKey, which are shown and not read by any handler,
\* are left out)
computedPitchesOf(pitchArray, root, base) ==
    [index \in DOMAIN pitchArray |->
        LET pitch == pitchArray[index]
            midiNote == root + index
            resolution == resolveExpression(pitch.expression)
            resolved == ResolvedOf(pitch, resolution.value)
            normalized == NormalizedAt(pitch, index, resolved)
        IN  [id |-> pitch.id,
             description |-> pitch.description,
             expression |-> pitch.expression,
             locked |-> pitch.locked,
             position |-> index,
             midiNote |-> midiNote,
             resolved |-> IF pitch.locked THEN Some(Scale) ELSE resolved,
             normalized |-> IF pitch.locked THEN Some(Scale) ELSE normalized,
             error |-> ErrorOf(pitch, resolution.error),
             targetFrequency |-> targetFrequencyOf(base, normalized),
             standardFrequency |-> standardFrequencyOf(midiNote),
             centsOffset |-> centsOffsetOf(targetFrequencyOf(base, normalized),
                                           standardFrequencyOf(midiNote)),
             defaultExpression |-> getDefaultExpression(index)]]

\* ------------------------------------------------------------------------
\* Autofill (App: handleAutofill)
\* ------------------------------------------------------------------------
\* a reset that clears the description and keeps the expression
ResetPitchEntryKeepingExpression(pitch, index) == [pitch EXCEPT !.description = ""]

\* the reset applied to one pitch entry, in both branches of handleAutofill
ResetPitchEntry(pitch, index) ==
    [pitch EXCEPT !.description = "",
                  !.expression = IF pitch.locked THEN "1"
                                 ELSE getDefaultExpression(index)]

\* an autofill that works on the pitches as they are
resetPitchesOfNothing(pitches) == pitches

\* handleAutofill: resetPitches
resetPitchesOf(pitches) ==
    [index \in DOMAIN pitches |-> ResetPitchEntry(pitches[index], index)]

\* handleAutofill: pitchSlots
pitchSlotsOf(resetPitches) ==
    [index \in DOMAIN resetPitches |->
        IF resetPitches[index].locked
        THEN [index |-> index, locked |-> TRUE, normalized |-> Some(Scale)]
        ELSE [index |-> index, locked |-> FALSE,
              normalized |->
                  normalizeToOctave(resolveExpression(resetPitches[index].expression).value)]]

\* the filters without the test against the octave
IsCandidateWithOctave(interval) ==
    /\ ~interval.disabled
    /\ ~IsNull(interval.normalized)
    /\ ExceedsEpsilon(Abs(Val(interval.normalized) - Scale))

\* handleAutofill: the three filters that make `candidates`
IsCandidate(interval) ==
    /\ ~interval.disabled
    /\ ~IsNull(interval.normalized)
    /\ ExceedsEpsilon(Abs(Val(interval.normalized) - Scale))
    /\ ExceedsEpsilon(Abs(Val(interval.normalized) - 2 * Scale))

candidatesOf(computedIntervals) == SelectSeq(computedIntervals, IsCandidate)

\* a duplicate test that asks for equal values
IsDuplicateOfExactly(existing, candidate) ==
    /\ ~IsNull(existing.normalized)
    /\ ~IsNull(candidate.normalized)
    /\ existing.normalized = candidate.normalized

\* handleAutofill: the test inside unique.some(...)
IsDuplicateOf(existing, candidate) ==
    /\ ~IsNull(existing.normalized)
    /\ ~IsNull(candidate.normalized)
    /\ BelowEpsilon(Abs(Val(existing.normalized) - Val(candidate.normalized)))

\* handleAutofill: candidates.forEach(... unique.push(candidate))
RECURSIVE uniqueOf(_, _)
uniqueOf(candidates, unique) ==
    IF candidates = << >>
    THEN unique
    ELSE LET candidate == Head(candidates)
         IN  uniqueOf(Tail(candidates),
                      IF \E k \in DOMAIN unique : IsDuplicateOf(unique[k], candidate)
                      THEN unique
                      ELSE Append(unique, candidate))

\* the comparator of unique.sort: a negative, zero or positive number
CompareNormalized(a, b) ==
    IF IsNull(a.normalized) \/ IsNull(b.normalized)
    THEN 0
    ELSE Val(a.normalized) - Val(b.normalized)

\* Array.prototype.sort is stable: x goes after every element that does not
\* compare greater than it
InsertSorted(sorted, x) ==
    LET after == {k \in DOMAIN sorted : CompareNormalized(sorted[k], x) > 0}
        at == IF after = {} THEN Len(sorted) + 1
              ELSE CHOOSE k \in after : \A j \in after : k <= j
    IN  SubSeq(sorted, 1, at - 1) \o << x >> \o SubSeq(sorted, at, Len(sorted))

\* a sort that leaves the candidates in list order
sortOfNothing(rest, sorted) == rest

\* handleAutofill: unique.sort
RECURSIVE sortOf(_, _)
sortOf(rest, sorted) ==
    IF rest = << >> THEN sorted
    ELSE sortOf(Tail(rest), InsertSorted(sorted, Head(rest)))

\* a slice that keeps the last eleven
selectedOfLast(unique) ==
    SubSeq(unique, IF Len(unique) < 11 THEN 1 ELSE Len(unique) - 10, Len(unique))

\* handleAutofill: unique.slice(0, 11)
selectedOf(unique) ==
    SubSeq(unique, 1, IF Len(unique) < 11 THEN Len(unique) ELSE 11)

\* a visit that lets the last of several nearest slots win
VisitSlotLastWins(slot, assigned, normalized, best) ==
    IF slot.locked \/ IsNull(slot.normalized) \/ slot.index \in assigned
    THEN best
    ELSE LET delta == Abs(Val(slot.normalized) - normalized)
         IN  IF IsNull(best.bestDelta) \/ delta <= Val(best.bestDelta)
             THEN [bestIndex |-> Some(slot.index), bestDelta |-> Some(delta)]
             ELSE best

\* a visit that does not skip a locked slot
VisitSlotLockedToo(slot, assigned, normalized, best) ==
    IF IsNull(slot.normalized) \/ slot.index \in assigned
    THEN best
    ELSE LET delta == Abs(Val(slot.normalized) - normalized)
         IN  IF IsNull(best.bestDelta) \/ delta < Val(best.bestDelta)
             THEN [bestIndex |-> Some(slot.index), bestDelta |-> Some(delta)]
             ELSE best

\* a visit that does not skip a slot assigned earlier in the run
VisitSlotTakenToo(slot, assigned, normalized, best) ==
    IF slot.locked \/ IsNull(slot.normalized)
    THEN best
    ELSE LET delta == Abs(Val(slot.normalized) - normalized)
         IN  IF IsNull(best.bestDelta) \/ delta < Val(best.bestDelta)
             THEN [bestIndex |-> Some(slot.index), bestDelta |-> Some(delta)]
             ELSE best

\* handleAutofill: one visit of pitchSlots.forEach; best is
\* [bestIndex, bestDelta], Null standing for null and for POSITIVE_INFINITY
VisitSlot(slot, assigned, normalized, best) ==
    IF slot.locked \/ IsNull(slot.normalized) \/ slot.index \in assigned
    THEN best
    ELSE LET delta == Abs(Val(slot.normalized) - normalized)
         IN  IF IsNull(best.bestDelta) \/ delta < Val(best.bestDelta)
             THEN [bestIndex |-> Some(slot.index), bestDelta |-> Some(delta)]
             ELSE best

\* handleAutofill: pitchSlots.forEach, slots visited in index order from `index`
RECURSIVE bestSlotOf(_, _, _, _, _)
bestSlotOf(pitchSlots, assigned, normalized, index, best) ==
    IF index \notin DOMAIN pitchSlots
    THEN best
    ELSE bestSlotOf(pitchSlots, assigned, normalized, index + 1,
                    VisitSlot(pitchSlots[index], assigned, normalized, best))

\* handleAutofill: selected.forEach.  run is
\* [resetPitches, assigned, placed]; placed lists, per interval written to a
\* slot, the interval, the slot and the slots assigned before it.
RECURSIVE assignOf(_, _, _)
assignOf(selected, pitchSlots, run) ==
    IF selected = << >>
    THEN run
    ELSE LET interval == Head(selected)
             best == bestSlotOf(pitchSlots, run.assigned, Val(interval.normalized), 0,
                                [bestIndex |-> Null, bestDelta |-> Null])
         IN  IF IsNull(interval.normalized) \/ IsNull(best.bestIndex)
             THEN assignOf(Tail(selected), pitchSlots, run)
             ELSE LET bestIndex == Val(best.bestIndex)
                  IN  assignOf(Tail(selected), pitchSlots,
                        [resetPitches |->
                            [run.resetPitches EXCEPT
                                ![bestIndex].description = interval.description,
                                ![bestIndex].expression = interval.expression],
                         assigned |-> run.assigned \cup {bestIndex},
                         placed |-> Append(run.placed,
                                           [interval |-> interval,
                                            slot |-> bestIndex,
                                            before |-> run.assigned])])

\* handleAutofill as a function of the state it reads: the run it makes
autofillRun(intervals, pitches) ==
    LET computedIntervals == computedIntervalsOf(intervals)
        resetPitches == resetPitchesOf(pitches)
    IN  IF Len(computedIntervals) = 0
        THEN [resetPitches |-> resetPitches, assigned |-> {}, placed |-> << >>]
        ELSE assignOf(selectedOf(sortOf(uniqueOf(candidatesOf(computedIntervals), << >>),
                                        << >>)),
                      pitchSlotsOf(resetPitches),
                      [resetPitches |-> resetPitches, assigned |-> {}, placed |-> << >>])

\* the pitch list handleAutofill passes to setPitches
autofilled(intervals, pitches) == autofillRun(intervals, pitches).resetPitches

\* ------------------------------------------------------------------------
\* Snapshots (lib/temperament.ts)
\* ------------------------------------------------------------------------
\* A JSON value carries its JavaScript type in t.  An object holds its own
\* properties in f; an array holds its elements in items (1-based).
JUndefined == [t |-> "undefined"]
JNull == [t |-> "null"]
JString(s) == [t |-> "string", v |-> s]
JNumber(n) == [t |-> "number", v |-> n]
JBoolean(b) == [t |-> "boolean", v |-> b]
JArray(items) == [t |-> "array", items |-> items]
JObject(f) == [t |-> "object", f |-> f]

\* value.name: undefined for a property that is not there
Prop(value, name) ==
    IF value.t = "object" /\ name \in DOMAIN value.f THEN value.f[name] ELSE JUndefined

\* reading a property of null or undefined throws a TypeError
ThrowsOnRead(value) == value.t \in {"null", "undefined"}

\* value ?? {}
OrEmptyObject(value) ==
    IF value.t \in {"null", "undefined"} THEN JObject([none |-> JUndefined]) ELSE value

\* typeof value === 'string' ? value : ''
StringOrEmpty(value) == IF value.t = "string" THEN value.v ELSE ""

\* a conversion that takes nothing but true for true
ToBooleanOnlyTrue(value) == value = JBoolean(TRUE)

\* Boolean(value)
ToBoolean(value) ==
    CASE value.t = "boolean" -> value.v
      [] value.t = "number" -> value.v # 0
      [] value.t = "string" -> value.v # ""
      [] value.t \in {"null", "undefined"} -> FALSE
      [] OTHER -> TRUE

SNAPSHOT_SCHEMA == "chroma-temperament"
SNAPSHOT_VERSION == 1

Thrown(message) == [ok |-> FALSE, error |-> message]

TypeErrorMessage(name) == "Cannot read properties of null (reading '" \o name \o "')"

\* deserializeTemperament: the entry made of one element of parsed.intervals
LoadedInterval(interval, id) ==
    createIntervalDefinition(id,
                             StringOrEmpty(Prop(interval, "description")),
                             StringOrEmpty(Prop(interval, "expression")),
                             ToBoolean(Prop(interval, "disabled")))

\* deserializeTemperament: the expression given to the pitch entry at index
LoadedPitchExpression(pitch, index) ==
    IF index = 0 THEN "1" ELSE StringOrEmpty(Prop(pitch, "expression"))

\* deserializeTemperament: the entry made of one element of parsed.pitches
LoadedPitch(pitch, index, id) ==
    createPitchDefinition(id,
                          StringOrEmpty(Prop(pitch, "description")),
                          LoadedPitchExpression(pitch, index),
                          index = 0)

\* a test on parsed.pitches that forgets the count
PitchesRejectedUnlessArray(pitches) == pitches.t # "array"

\* deserializeTemperament: the test on parsed.pitches
PitchesRejected(pitches) ==
    pitches.t # "array" \/ Len(pitches.items) # TOTAL_PITCHES

\* deserializeTemperament: the test on parsed.intervals
IntervalsRejected(intervals) ==
    intervals.t # "array" \/ Len(intervals.items) = 0

\* deserializeTemperament: the test on the three config values
ConfigRejected(config) ==
    \/ Prop(config, "keyRoot").t # "number"
    \/ Prop(config, "concertPitch").t # "number"
    \/ Prop(config, "keyFrequency").t # "number"

\* deserializeTemperament.  raw is the text: raw.valid says whether JSON.parse
\* accepts it and raw.parsed is what it returns.  The ids drawn are
\* firstId, firstId + 1, ... (intervals first, then pitches).
deserializeTemperament(raw, firstId) ==
    LET parsed == raw.parsed
        intervals == Prop(parsed, "intervals")
        pitches == Prop(parsed, "pitches")
        config == OrEmptyObject(Prop(parsed, "config"))
        metadata == OrEmptyObject(Prop(parsed, "metadata"))
    IN  IF ~raw.valid
        THEN Thrown("File is not valid JSON.")
        ELSE IF ThrowsOnRead(parsed)
        THEN Thrown(TypeErrorMessage("schema"))
        ELSE IF ~(Prop(parsed, "schema").t = "string"
                  /\ Prop(parsed, "schema").v = SNAPSHOT_SCHEMA)
        THEN Thrown("Unsupported temperament schema.")
        ELSE IF ~(Prop(parsed, "version").t = "number"
                  /\ Prop(parsed, "version").v = SNAPSHOT_VERSION)
        THEN Thrown("Unsupported temperament version.")
        ELSE IF IntervalsRejected(intervals)
        THEN Thrown("Temperament must include at least one interval.")
        ELSE IF PitchesRejected(pitches)
        THEN Thrown("Temperament must include exactly "
                    \o ToString(TOTAL_PITCHES) \o " pitch entries.")
        ELSE IF \E k \in DOMAIN intervals.items : ThrowsOnRead(intervals.items[k])
        THEN Thrown(TypeErrorMessage("description"))
        ELSE IF \E k \in DOMAIN pitches.items : ThrowsOnRead(pitches.items[k])
        THEN Thrown(TypeErrorMessage("description"))
        ELSE IF ConfigRejected(config)
        THEN Thrown("Temperament config is missing required numeric values.")
        ELSE [ok |-> TRUE,
              metadata |-> [title |-> StringOrEmpty(Prop(metadata, "title")),
                            description |-> StringOrEmpty(Prop(metadata, "description"))],
              config |-> [keyRoot |-> Prop(config, "keyRoot").v,
                          concertPitch |-> Prop(config, "concertPitch").v,
                          keyFrequency |-> Prop(config, "keyFrequency").v],
              intervals |-> [k \in DOMAIN intervals.items |->
                                LoadedInterval(intervals.items[k], firstId + k - 1)],
              pitches |-> [index \in 0..(Len(pitches.items) - 1) |->
                              LoadedPitch(pitches.items[index + 1], index,
                                          firstId + Len(intervals.items) + index)]]

\* serializeTemperament: the snapshot given to JSON.stringify.  The fields
\* of a document are strings, finite numbers and booleans, which `?? ''` and
\* Boolean leave as they are.
snapshotOf(input) ==
    JObject([schema |-> JString(SNAPSHOT_SCHEMA),
             version |-> JNumber(SNAPSHOT_VERSION),
             metadata |-> JObject([title |-> JString(input.metadata.title),
                                   description |-> JString(input.metadata.description)]),
             config |-> JObject([keyRoot |-> JNumber(input.config.keyRoot),
                                 concertPitch |-> JNumber(input.config.concertPitch),
                                 keyFrequency |-> JNumber(input.config.keyFrequency)]),
             intervals |-> JArray([k \in DOMAIN input.intervals |->
                                      JObject([description |-> JString(input.intervals[k].description),
                                               expression |-> JString(input.intervals[k].expression),
                                               disabled |-> JBoolean(input.intervals[k].disabled)])]),
             pitches |-> JArray([k \in 1..Len(input.pitches) |->
                                    JObject([description |-> JString(input.pitches[k].description),
                                             expression |-> JString(IF k = 1 THEN "1"
                                                                    ELSE input.pitches[k].expression)])])])

\* serializeTemperament: the text JSON.stringify writes, as what JSON.parse
\* reads back from it (strings, finite numbers, booleans, arrays and objects
\* come back as written)
serializeTemperament(input) == [valid |-> TRUE, parsed |-> snapshotOf(input)]

\* ------------------------------------------------------------------------
\* The texts a load may deliver
\* ------------------------------------------------------------------------
SnapshotInterval(description, expression, disabled) ==
    JObject([description |-> JString(description),
             expression |-> JString(expression),
             disabled |-> JBoolean(disabled)])

SnapshotPitch(description, expression) ==
    JObject([description |-> JString(description), expression |-> JString(expression)])

\* twelve pitch entries; the first stores a description and an expression
\* other than "1"
SnapshotPitches(count) ==
    [k \in 1..count |->
        IF k = 1 THEN SnapshotPitch("Do", "9/8")
        ELSE IF k = 8 THEN SnapshotPitch("Sol", "3/2")
        ELSE SnapshotPitch("", TwelfthPowerText(k - 1))]

\* a snapshot deserializeTemperament accepts: D4 as key root (outside the
\* range of the key select), concert pitch 432 Hz, key frequency 256 Hz
ValidSnapshot ==
    JObject([schema |-> JString(SNAPSHOT_SCHEMA),
             version |-> JNumber(SNAPSHOT_VERSION),
             metadata |-> JObject([title |-> JString("Pythagorean Cycle"),
                                   description |-> JString("stacked fifths")]),
             config |-> JObject([keyRoot |-> JNumber(62),
                                 concertPitch |-> JNumber(43200),
                                 keyFrequency |-> JNumber(25600)]),
             intervals |-> JArray(<< SnapshotInterval("Fifth", "3/2", FALSE),
                                    SnapshotInterval("Third", "5/4", TRUE) >>),
             pitches |-> JArray(SnapshotPitches(TOTAL_PITCHES))])

With(object, name, value) == JObject([object.f EXCEPT ![name] = value])

Text(parsed) == [valid |-> TRUE, parsed |-> parsed]

\* texts JSON.parse rejects, texts that parse to something other than a
\* snapshot, and snapshots that break one or several rules of the import
RejectedTexts ==
    { [valid |-> FALSE, parsed |-> JUndefined],
      Text(JNull),
      Text(JNumber(5)),
      Text(With(ValidSnapshot, "schema", JString("scala-scale"))),
      Text(With(ValidSnapshot, "version", JNumber(2))),
      Text(With(With(ValidSnapshot, "schema", JUndefined), "version", JNumber(2))),
      Text(With(ValidSnapshot, "intervals", JUndefined)),
      Text(With(ValidSnapshot, "intervals", JString("3/2"))),
      Text(With(ValidSnapshot, "intervals", JArray(<< >>))),
      Text(With(With(ValidSnapshot, "intervals", JArray(<< >>)),
                "pitches", JArray(SnapshotPitches(11)))),
      Text(With(ValidSnapshot, "pitches", JUndefined)),
      Text(With(ValidSnapshot, "pitches", JArray(SnapshotPitches(11)))),
      Text(With(ValidSnapshot, "pitches", JArray(SnapshotPitches(13)))),
      Text(With(With(ValidSnapshot, "pitches", JArray(SnapshotPitches(11))),
                "config", JUndefined)),
      Text(With(ValidSnapshot, "config", JUndefined)),
      Text(With(ValidSnapshot, "config", JNull)),
      Text(With(ValidSnapshot, "config",
                JObject([keyRoot |-> JString("62"),
                         concertPitch |-> JNumber(43200),
                         keyFrequency |-> JNumber(25600)]))),
      Text(With(ValidSnapshot, "intervals", JArray(<< JNull >>))),
      Text(With(With(ValidSnapshot, "intervals", JArray(<< JNull >>)),
                "config", JUndefined)) }

\* snapshots the import accepts: the valid one, one without metadata, and one
\* whose entries hold values of other types than the format names
AcceptedTexts ==
    { Text(ValidSnapshot),
      Text(With(ValidSnapshot, "metadata", JUndefined)),
      Text(With(With(ValidSnapshot, "intervals",
                     JArray(<< JObject([description |-> JNumber(7),
                                        expression |-> JNull,
                                        disabled |-> JString("no")]),
                               JNumber(3) >>)),
                "pitches",
                JArray([k \in 1..TOTAL_PITCHES |->
                           IF k = 2 THEN JObject([description |-> JBoolean(TRUE),
                                                  expression |-> JNumber(2)])
                           ELSE SnapshotPitch("", "")]))) }

RawTexts == RejectedTexts \cup AcceptedTexts

\* ------------------------------------------------------------------------
\* App state
\* ------------------------------------------------------------------------
VARIABLES
    intervals,               \* useState<IntervalDefinition[]>
    pitches,                 \* useState<PitchDefinition[]>
    temperamentTitle,
    temperamentDescription,
    keyRoot,
    concertPitch,
    keyFrequency,
    exampleQuery,
    loadedExampleId,         \* Null or Some(exampleId)
    inFlight,                \* the loads awaiting their response, oldest first
    nextId,                  \* the next crypto.randomUUID()
    lastOp,                  \* the handler that ran last, what it was given, what it alerted
    opCount                  \* handlers run so far

vars == << intervals, pitches, temperamentTitle, temperamentDescription, keyRoot,
           concertPitch, keyFrequency, exampleQuery, loadedExampleId, inFlight,
           nextId, lastOp, opCount >>

\* the live document: what export reads and import replaces
document == << temperamentTitle, temperamentDescription, keyRoot, concertPitch,
               keyFrequency, intervals, pitches >>

metaVars == << temperamentTitle, temperamentDescription >>
configVars == << keyRoot, concertPitch, keyFrequency >>
exampleVars == << exampleQuery, loadedExampleId >>

Op(name, arg) == [name |-> name, arg |-> arg, thrown |-> Null, alert |-> Null]

\* App: exampleOptions
exampleOptions ==
    << [value |-> "just-intonation-in-c", label |-> "Just Intonation in C"],
       [value |-> "pythagorean-cycle", label |-> "Pythagorean Cycle"],
       [value |-> "quarter-comma-meantone", label |-> "Quarter-comma Meantone"] >>

\* the state App constructs
Init ==
    /\ intervals = << createIntervalDefinition(1, "Tonic", "1", FALSE),
                      createIntervalDefinition(2, "Perfect fifth", "3/2", FALSE) >>
    /\ temperamentTitle = ""
    /\ temperamentDescription = ""
    /\ exampleQuery = ""
    /\ loadedExampleId = Null
    /\ keyRoot = 72
    /\ concertPitch = 44000
    /\ keyFrequency = deriveBaseFrequency(44000, 72)
    /\ pitches = getDefaultPitchDefinitions(3)
    /\ inFlight = << >>
    /\ nextId = 3 + TOTAL_PITCHES
    /\ lastOp = Op("App", << >>)
    /\ opCount = 0

\* { ...entry, ...patch }
Merge(entry, patch) ==
    [name \in DOMAIN entry |-> IF name \in DOMAIN patch THEN patch[name] ELSE entry[name]]

\* @dnd-kit/sortable arrayMove on a sequence: the element at from is taken
\* out and put back at to
arrayMove(array, from, to) ==
    LET without == SubSeq(array, 1, from - 1) \o SubSeq(array, from + 1, Len(array))
    IN  SubSeq(without, 1, to - 1) \o << array[from] >> \o SubSeq(without, to, Len(without))

\* array.findIndex by id, 1-based; 0 for not found
FindIndex(array, id) ==
    IF \E k \in DOMAIN array : array[k].id = id
    THEN CHOOSE k \in DOMAIN array : array[k].id = id /\ \A j \in 1..(k - 1) : array[j].id # id
    ELSE 0

\* ------------------------------------------------------------------------
\* Inputs of the handlers
\* ------------------------------------------------------------------------
IntervalPatches ==
    { [description |-> "Major third"], [expression |-> "5/4"], [disabled |-> TRUE] }

\* (active row, over row) of an interval drag; over 0 is a drop on nothing
IntervalDrags == { <<1, 0>>, <<1, 1>>, <<1, 2>>, <<2, 1>> }

PitchPatches == { [description |-> "Do"], [expression |-> "3/2"] }

\* the rows of the pitch table the model edits and resets
EditedPositions == {0, 7}

\* (active position, over position) of a pitch drag; over -1 is a drop on nothing
PitchDrags == { <<1, -1>>, <<1, 1>>, <<0, 3>>, <<3, 0>>, <<1, 3>>, <<7, 1>> }

TitleInputs == {"Werckmeister III"}
DescriptionInputs == {"well temperament"}
ConcertPitchInputs == {"432", "abc"}
KeyFrequencyInputs == {"432", ""}
KeyInputs == {"75", "90", "abc"}
QueryInputs == {"", "Pythagorean Cycle", " JUST-INTONATION-IN-C ", "Pyth"}

\* Number(value) on the texts above, in hundredths
\*   [nan |-> TRUE] for NaN
Number(value) ==
    CASE value = "" -> [nan |-> FALSE, n |-> 0]
      [] value = "432" -> [nan |-> FALSE, n |-> 43200]
      [] value = "-5" -> [nan |-> FALSE, n |-> -500]
      [] value = "0" -> [nan |-> FALSE, n |-> 0]
      [] value = "256" -> [nan |-> FALSE, n |-> 25600]
      [] value = "440" -> [nan |-> FALSE, n |-> 44000]
      [] value = "60" -> [nan |-> FALSE, n |-> 6000]
      [] value = "69" -> [nan |-> FALSE, n |-> 6900]
      [] value = "80" -> [nan |-> FALSE, n |-> 8000]
      [] value = "75" -> [nan |-> FALSE, n |-> 7500]
      [] value = "90" -> [nan |-> FALSE, n |-> 9000]
      [] OTHER -> [nan |-> TRUE, n |-> 0]

\* query.trim().toLowerCase() on the queries above
TrimLower(query) ==
    CASE query = "Pythagorean Cycle" -> "pythagorean cycle"
      [] query = " JUST-INTONATION-IN-C " -> "just-intonation-in-c"
      [] query = "Pyth" -> "pyth"
      [] OTHER -> query

\* label.toLowerCase() of the example options
LowerLabel(label) ==
    CASE label = "Just Intonation in C" -> "just intonation in c"
      [] label = "Pythagorean Cycle" -> "pythagorean cycle"
      [] label = "Quarter-comma Meantone" -> "quarter-comma meantone"
      [] OTHER -> label

\* ------------------------------------------------------------------------
\* Interval handlers
\* ------------------------------------------------------------------------
\* App: handleIntervalChange
handleIntervalChange ==
    \E k \in DOMAIN intervals, patch \in IntervalPatches :
        LET id == intervals[k].id
        IN  /\ intervals' = [j \in DOMAIN intervals |->
                                IF intervals[j].id = id
                                THEN Merge(intervals[j], patch)
                                ELSE intervals[j]]
            /\ lastOp' = Op("handleIntervalChange", [id |-> id, patch |-> patch])
            /\ UNCHANGED << pitches, metaVars, configVars, exampleVars, inFlight, nextId >>

\* App: handleIntervalDelete
handleIntervalDelete ==
    \E k \in DOMAIN intervals :
        LET id == intervals[k].id
            Kept(interval) == interval.id # id
        IN  /\ intervals' = SelectSeq(intervals, Kept)
            /\ lastOp' = Op("handleIntervalDelete", [id |-> id])
            /\ UNCHANGED << pitches, metaVars, configVars, exampleVars, inFlight, nextId >>

\* App: handleAddInterval
handleAddInterval ==
    /\ Len(intervals) < MaxIntervals
    /\ intervals' = Append(intervals, createIntervalDefinition(nextId, "", "", FALSE))
    /\ nextId' = nextId + 1
    /\ lastOp' = Op("handleAddInterval", << >>)
    /\ UNCHANGED << pitches, metaVars, configVars, exampleVars, inFlight >>

\* App: handleIntervalDragEnd; over is Null when the row is dropped on nothing
handleIntervalDragEnd ==
    \E drag \in IntervalDrags :
        LET active == intervals[drag[1]].id
            over == IF drag[2] = 0 THEN Null ELSE Some(intervals[drag[2]].id)
        IN  /\ {drag[1], drag[2]} \subseteq {0} \cup DOMAIN intervals
            /\ lastOp' = Op("handleIntervalDragEnd", [active |-> active, over |-> over])
            /\ IF IsNull(over) \/ active = Val(over)
               THEN UNCHANGED intervals
               ELSE intervals' = arrayMove(intervals, FindIndex(intervals, active),
                                           FindIndex(intervals, Val(over)))
            /\ UNCHANGED << pitches, metaVars, configVars, exampleVars, inFlight, nextId >>

\* ------------------------------------------------------------------------
\* Pitch handlers
\* ------------------------------------------------------------------------
\* a patch that does not look at the lock
PatchedPitchUnlocked(pitch, id, patch) ==
    IF pitch.id # id THEN pitch ELSE Merge(pitch, patch)

\* handlePitchChange: what becomes of one entry
PatchedPitch(pitch, id, patch) ==
    IF pitch.id # id
    THEN pitch
    ELSE IF pitch.locked /\ "expression" \in DOMAIN patch
    THEN pitch
    ELSE Merge(pitch, patch)

\* App: handlePitchChange
handlePitchChange ==
    \E position \in EditedPositions, patch \in PitchPatches :
        LET id == pitches[position].id
        IN  /\ pitches' = [index \in DOMAIN pitches |-> PatchedPitch(pitches[index], id, patch)]
            /\ lastOp' = Op("handlePitchChange", [position |-> position, patch |-> patch])
            /\ UNCHANGED << intervals, metaVars, configVars, exampleVars, inFlight, nextId >>

\* handlePitchReset: what becomes of one entry
ResetPitch(pitch, index, position, defaultExpression) ==
    IF index # position
    THEN pitch
    ELSE [pitch EXCEPT !.description = "",
                       !.expression = IF pitch.locked THEN "1" ELSE defaultExpression]

\* App: handlePitchReset; the row passes its position and its defaultExpression
handlePitchReset ==
    \E position \in EditedPositions :
        /\ pitches' = [index \in DOMAIN pitches |->
                          ResetPitch(pitches[index], index, position,
                                     getDefaultExpression(position))]
        /\ lastOp' = Op("handlePitchReset", [position |-> position])
        /\ UNCHANGED << intervals, metaVars, configVars, exampleVars, inFlight, nextId >>

\* the ascending sequence of the elements of a set of numbers
RECURSIVE Ascending(_)
Ascending(S) ==
    IF S = {} THEN << >>
    ELSE LET least == CHOOSE x \in S : \A y \in S : x <= y
         IN  << least >> \o Ascending(S \ {least})

\* array.indexOf(x), 1-based; 0 for not found
IndexOf(array, x) ==
    IF \E k \in DOMAIN array : array[k] = x
    THEN CHOOSE k \in DOMAIN array : array[k] = x /\ \A j \in 1..(k - 1) : array[j] # x
    ELSE 0

\* a reorder that exchanges the two rows and leaves the rows between them
reorderedPitchesExchanged(prev, activePosition, overPosition) ==
    [index \in DOMAIN prev |->
        CASE index = activePosition ->
                [prev[index] EXCEPT !.description = prev[overPosition].description,
                                    !.expression = prev[overPosition].expression]
          [] index = overPosition ->
                [prev[index] EXCEPT !.description = prev[activePosition].description,
                                    !.expression = prev[activePosition].expression]
          [] OTHER -> prev[index]]

\* handlePitchDragEnd: the pitch list the updater passed to setPitches returns
\* for the rows at activePosition and overPosition
reorderedPitches(prev, activePosition, overPosition) ==
    LET movableIndices == Ascending({index \in DOMAIN prev : ~prev[index].locked})
        fromIndex == IndexOf(movableIndices, activePosition)
        toIndex == IndexOf(movableIndices, overPosition)
        values == [k \in DOMAIN movableIndices |->
                      [description |-> prev[movableIndices[k]].description,
                       expression |-> prev[movableIndices[k]].expression]]
        reordered == arrayMove(values, fromIndex, toIndex)
    IN  IF fromIndex = 0 \/ toIndex = 0
        THEN prev
        ELSE [index \in DOMAIN prev |->
                 LET orderIdx == IndexOf(movableIndices, index)
                 IN  IF orderIdx = 0
                     THEN prev[index]
                     ELSE [prev[index] EXCEPT
                              !.description = reordered[orderIdx].description,
                              !.expression = IF prev[index].locked THEN "1"
                                             ELSE reordered[orderIdx].expression]]

\* handlePitchDragEnd: the early returns
DragIgnored(active, over) ==
    \/ IsNull(over)
    \/ active = Val(over)
    \/ ~\E index \in DOMAIN pitches : pitches[index].id = active
    \/ ~\E index \in DOMAIN pitches : pitches[index].id = Val(over)
    \/ \E index \in DOMAIN pitches :
          pitches[index].id \in {active, Val(over)} /\ pitches[index].locked

\* computedPitches.find(...).position
PositionOf(id) == CHOOSE index \in DOMAIN pitches : pitches[index].id = id

\* a drag handler that moves the rows of the pitch table the way
\* handleIntervalDragEnd moves the rows of the interval list
handlePitchDragEndWholeRows ==
    \E drag \in PitchDrags :
        LET active == pitches[drag[1]].id
            over == IF drag[2] < 0 THEN Null ELSE Some(pitches[drag[2]].id)
            rows == [k \in 1..TOTAL_PITCHES |-> pitches[k - 1]]
        IN  /\ lastOp' = Op("handlePitchDragEnd", [active |-> active, over |-> over])
            /\ IF IsNull(over) \/ active = Val(over)
               THEN UNCHANGED pitches
               ELSE pitches' = [index \in DOMAIN pitches |->
                                   arrayMove(rows, drag[1] + 1, drag[2] + 1)[index + 1]]
            /\ UNCHANGED << intervals, metaVars, configVars, exampleVars, inFlight, nextId >>

\* App: handlePitchDragEnd
handlePitchDragEnd ==
    \E drag \in PitchDrags :
        LET active == pitches[drag[1]].id
            over == IF drag[2] < 0 THEN Null ELSE Some(pitches[drag[2]].id)
        IN  /\ lastOp' = Op("handlePitchDragEnd", [active |-> active, over |-> over])
            /\ IF DragIgnored(active, over)
               THEN UNCHANGED pitches
               ELSE pitches' = reorderedPitches(pitches, PositionOf(active),
                                                PositionOf(Val(over)))
            /\ UNCHANGED << intervals, metaVars, configVars, exampleVars, inFlight, nextId >>

\* App: handleAutofill
handleAutofill ==
    /\ pitches' = autofilled(intervals, pitches)
    /\ lastOp' = Op("handleAutofill", << >>)
    /\ UNCHANGED << intervals, metaVars, configVars, exampleVars, inFlight, nextId >>

\* ------------------------------------------------------------------------
\* Metadata and tuning configuration
\* ------------------------------------------------------------------------
\* TemperamentMeta: onTitleChange = setTemperamentTitle
setTemperamentTitle ==
    \E value \in TitleInputs :
        /\ temperamentTitle' = value
        /\ lastOp' = Op("setTemperamentTitle", [value |-> value])
        /\ UNCHANGED << intervals, pitches, temperamentDescription, configVars,
                        exampleVars, inFlight, nextId >>

\* TemperamentMeta: onDescriptionChange = setTemperamentDescription
setTemperamentDescription ==
    \E value \in DescriptionInputs :
        /\ temperamentDescription' = value
        /\ lastOp' = Op("setTemperamentDescription", [value |-> value])
        /\ UNCHANGED << intervals, pitches, temperamentTitle, configVars,
                        exampleVars, inFlight, nextId >>

\* frequency / Math.pow(2, (root - 69) / 12), rounded down
OverRatio(frequency, ratio) == (frequency * 4096) \div (ratio \div 4096)

\* App: handleConcertPitchChange(value), with syncFromConcertPitch
ConcertPitchEdit(value) ==
    LET numeric == Number(value)
    IN  /\ lastOp' = Op("handleConcertPitchChange", [value |-> value])
        /\ IF ~numeric.nan /\ numeric.n > 0
           THEN /\ concertPitch' = numeric.n
                /\ keyFrequency' = deriveBaseFrequency(numeric.n, keyRoot)
                /\ UNCHANGED keyRoot
           ELSE UNCHANGED configVars
        /\ UNCHANGED << intervals, pitches, metaVars, exampleVars, inFlight, nextId >>

handleConcertPitchChange == \E value \in ConcertPitchInputs : ConcertPitchEdit(value)

\* App: handleKeyFrequencyChange(value), with syncFromKeyFrequency
KeyFrequencyEdit(value) ==
    LET numeric == Number(value)
    IN  /\ lastOp' = Op("handleKeyFrequencyChange", [value |-> value])
        /\ IF ~numeric.nan /\ numeric.n > 0
           THEN /\ keyFrequency' = numeric.n
                /\ concertPitch' = OverRatio(numeric.n, PowerOfTwoTwelfths(keyRoot - 69))
                /\ UNCHANGED keyRoot
           ELSE UNCHANGED configVars
        /\ UNCHANGED << intervals, pitches, metaVars, exampleVars, inFlight, nextId >>

handleKeyFrequencyChange == \E value \in KeyFrequencyInputs : KeyFrequencyEdit(value)

\* Math.min(Math.max(numeric, MIN_KEY_NOTE), MAX_KEY_NOTE), numeric in
\* hundredths and whole
Clamped(numeric) ==
    LET note == numeric \div 100
        raised == IF note > MIN_KEY_NOTE THEN note ELSE MIN_KEY_NOTE
    IN  IF raised < MAX_KEY_NOTE THEN raised ELSE MAX_KEY_NOTE

\* App: handleKeyChange(value), with syncFromConcertPitch
KeyEdit(value) ==
    LET numeric == Number(value)
    IN  /\ lastOp' = Op("handleKeyChange", [value |-> value])
        /\ IF ~numeric.nan
           THEN /\ keyRoot' = Clamped(numeric.n)
                /\ keyFrequency' = deriveBaseFrequency(concertPitch, Clamped(numeric.n))
                /\ UNCHANGED concertPitch
           ELSE UNCHANGED configVars
        /\ UNCHANGED << intervals, pitches, metaVars, exampleVars, inFlight, nextId >>

handleKeyChange == \E value \in KeyInputs : KeyEdit(value)

\* ------------------------------------------------------------------------
\* Loading a document
\* ------------------------------------------------------------------------
\* App: applyLoadedTemperament, the part on the live document
applyLoadedTemperament(loaded) ==
    /\ temperamentTitle' = loaded.metadata.title
    /\ temperamentDescription' = loaded.metadata.description
    /\ intervals' = loaded.intervals
    /\ pitches' = loaded.pitches
    /\ keyRoot' = loaded.config.keyRoot
    /\ concertPitch' = loaded.config.concertPitch
    /\ keyFrequency' = loaded.config.keyFrequency

\* the ids deserializeTemperament draws for an accepted text
IdsDrawn(loaded) == Len(loaded.intervals) + TOTAL_PITCHES

\* App: handleImportFromFile up to `await file.text()`; without a file the
\* handler returns at once
ImportRequested ==
    \E hasFile \in BOOLEAN :
        /\ lastOp' = Op("handleImportFromFile", [hasFile |-> hasFile])
        /\ IF hasFile
           THEN /\ Len(inFlight) < MaxInFlight
                /\ inFlight' = Append(inFlight, [kind |-> "file"])
           ELSE UNCHANGED inFlight
        /\ UNCHANGED << intervals, pitches, metaVars, configVars, exampleVars, nextId >>

\* handleExampleQueryChange: the option the query matches, Null for none
MatchOf(trimmed) ==
    LET byLabel == {k \in DOMAIN exampleOptions : LowerLabel(exampleOptions[k].label) = trimmed}
        byValue == {k \in DOMAIN exampleOptions : exampleOptions[k].value = trimmed}
        First(S) == exampleOptions[CHOOSE k \in S : \A j \in S : k <= j]
    IN  IF byLabel # {} THEN Some(First(byLabel))
        ELSE IF byValue # {} THEN Some(First(byValue))
        ELSE Null

\* App: handleExampleQueryChange, and loadExampleTemperament up to `await fetch`
handleExampleQueryChange ==
    \E query \in QueryInputs :
        LET trimmed == TrimLower(query)
            match == IF trimmed = "" THEN Null ELSE MatchOf(trimmed)
        IN  /\ exampleQuery' = query
            /\ lastOp' = Op("handleExampleQueryChange", [query |-> query])
            /\ IF IsNull(match)
               THEN UNCHANGED inFlight
               ELSE /\ Len(inFlight) < MaxInFlight
                    /\ inFlight' = Append(inFlight,
                                          [kind |-> "example", exampleId |-> Val(match).value])
            /\ UNCHANGED << intervals, pitches, metaVars, configVars, loadedExampleId, nextId >>

Without(array, k) == SubSeq(array, 1, k - 1) \o SubSeq(array, k + 1, Len(array))

\* an import that applies the metadata of a text before it validates the rest
ImportCompletedMetadataFirst ==
    \E k \in DOMAIN inFlight, text \in {Some(raw) : raw \in RawTexts} :
        LET loaded == deserializeTemperament(Val(text), nextId)
            metadata == OrEmptyObject(Prop(Val(text).parsed, "metadata"))
        IN  /\ inFlight[k].kind = "file"
            /\ inFlight' = Without(inFlight, k)
            /\ temperamentTitle' = StringOrEmpty(Prop(metadata, "title"))
            /\ temperamentDescription' = StringOrEmpty(Prop(metadata, "description"))
            /\ IF loaded.ok
               THEN /\ intervals' = loaded.intervals
                    /\ pitches' = loaded.pitches
                    /\ keyRoot' = loaded.config.keyRoot
                    /\ concertPitch' = loaded.config.concertPitch
                    /\ keyFrequency' = loaded.config.keyFrequency
                    /\ exampleQuery' = loaded.metadata.title
                    /\ loadedExampleId' = Null
                    /\ nextId' = nextId + IdsDrawn(loaded)
                    /\ lastOp' = [name |-> "handleImportFromFile",
                                  arg |-> [text |-> text, request |-> k],
                                  thrown |-> Null, alert |-> Null]
               ELSE /\ lastOp' = [name |-> "handleImportFromFile",
                                  arg |-> [text |-> text, request |-> k],
                                  thrown |-> Some(loaded.error),
                                  alert |-> Some("Unable to import temperament: "
                                                 \o loaded.error)]
                    /\ UNCHANGED << intervals, pitches, configVars, exampleVars, nextId >>

\* App: handleImportFromFile from `await file.text()` on.  The read fails or
\* delivers a text.
ImportCompleted ==
    \E k \in DOMAIN inFlight, text \in {Null} \cup {Some(raw) : raw \in RawTexts} :
        LET loaded == deserializeTemperament(Val(text), nextId)
            thrown == IF IsNull(text) THEN Some("The file could not be read.")
                      ELSE IF loaded.ok THEN Null ELSE Some(loaded.error)
        IN  /\ inFlight[k].kind = "file"
            /\ inFlight' = Without(inFlight, k)
            /\ IF IsNull(thrown)
               THEN /\ applyLoadedTemperament(loaded)
                    /\ exampleQuery' = loaded.metadata.title
                    /\ loadedExampleId' = Null
                    /\ nextId' = nextId + IdsDrawn(loaded)
                    /\ lastOp' = [name |-> "handleImportFromFile",
                                  arg |-> [text |-> text, request |-> k],
                                  thrown |-> Null, alert |-> Null]
               ELSE /\ lastOp' = [name |-> "handleImportFromFile",
                                  arg |-> [text |-> text, request |-> k],
                                  thrown |-> thrown,
                                  alert |-> Some("Unable to import temperament: "
                                                 \o Val(thrown))]
                    /\ UNCHANGED << intervals, pitches, metaVars, configVars,
                                    exampleVars, nextId >>

\* loadExampleTemperament: the label put in the query box
LabelOf(exampleId) ==
    LET found == {k \in DOMAIN exampleOptions : exampleOptions[k].value = exampleId}
    IN  IF found = {} THEN Null
        ELSE Some(exampleOptions[CHOOSE k \in found : \A j \in found : k <= j].label)

\* App: loadExampleTemperament from `await fetch` on.  The fetch fails, or
\* answers with a status that is not ok, or delivers a text.
ExampleCompleted ==
    \E k \in DOMAIN inFlight,
       response \in {[ok |-> FALSE, text |-> Null]}
                    \cup {[ok |-> TRUE, text |-> Some(raw)] : raw \in RawTexts} :
        LET exampleId == inFlight[k].exampleId
            loaded == deserializeTemperament(Val(response.text), nextId)
            thrown == IF ~response.ok THEN Some("Request failed")
                      ELSE IF loaded.ok THEN Null ELSE Some(loaded.error)
        IN  /\ inFlight[k].kind = "example"
            /\ inFlight' = Without(inFlight, k)
            /\ IF IsNull(thrown)
               THEN /\ applyLoadedTemperament(loaded)
                    /\ exampleQuery' = IF IsNull(LabelOf(exampleId)) THEN exampleQuery
                                       ELSE Val(LabelOf(exampleId))
                    /\ loadedExampleId' = Some(exampleId)
                    /\ nextId' = nextId + IdsDrawn(loaded)
                    /\ lastOp' = [name |-> "loadExampleTemperament",
                                  arg |-> [text |-> response.text, request |-> k],
                                  thrown |-> Null, alert |-> Null]
               ELSE /\ lastOp' = [name |-> "loadExampleTemperament",
                                  arg |-> [text |-> response.text, request |-> k],
                                  thrown |-> thrown,
                                  alert |-> Some("Unable to load the selected example temperament.")]
                    /\ UNCHANGED << intervals, pitches, metaVars, configVars,
                                    exampleVars, nextId >>

\* handleExportTemperament: the argument given to serializeTemperament (the
\* pitch array as a list in slot order)
exportInput ==
    [metadata |-> [title |-> temperamentTitle, description |-> temperamentDescription],
     config |-> [keyRoot |-> keyRoot, concertPitch |-> concertPitch,
                 keyFrequency |-> keyFrequency],
     intervals |-> intervals,
     pitches |-> [k \in 1..TOTAL_PITCHES |-> pitches[k - 1]]]

\* App: handleExportTemperament; the payload goes to a download and no state
\* of the page changes
handleExportTemperament ==
    /\ lastOp' = Op("handleExportTemperament",
                    [payload |-> serializeTemperament(exportInput)])
    /\ UNCHANGED << intervals, pitches, metaVars, configVars, exampleVars, inFlight, nextId >>

\* ------------------------------------------------------------------------
\* Specifications
\* ------------------------------------------------------------------------
\* one handler at a time (the page is single-threaded), MaxOps in all
Count == opCount < MaxOps /\ opCount' = opCount + 1

IntervalChanged == Count /\ handleIntervalChange
IntervalDeleted == Count /\ handleIntervalDelete
IntervalAdded == Count /\ handleAddInterval
IntervalDragged == Count /\ handleIntervalDragEnd
PitchChanged == Count /\ handlePitchChange
PitchReset == Count /\ handlePitchReset
PitchDragged == Count /\ handlePitchDragEnd
Autofilled == Count /\ handleAutofill
TitleChanged == Count /\ setTemperamentTitle
DescriptionChanged == Count /\ setTemperamentDescription
ConcertPitchChanged == Count /\ handleConcertPitchChange
KeyFrequencyChanged == Count /\ handleKeyFrequencyChange
KeyChanged == Count /\ handleKeyChange
FileChosen == Count /\ ImportRequested
ExampleQueryChanged == Count /\ handleExampleQueryChange
FileRead == Count /\ ImportCompleted
ExampleFetched == Count /\ ExampleCompleted
Exported == Count /\ handleExportTemperament

Next ==
    \/ IntervalChanged
    \/ IntervalDeleted
    \/ IntervalAdded
    \/ IntervalDragged
    \/ PitchChanged
    \/ PitchReset
    \/ PitchDragged
    \/ Autofilled
    \/ TitleChanged
    \/ DescriptionChanged
    \/ ConcertPitchChanged
    \/ KeyFrequencyChanged
    \/ KeyChanged
    \/ FileChosen
    \/ ExampleQueryChanged
    \/ FileRead
    \/ ExampleFetched
    \/ Exported

Spec == Init /\ [][Next]_vars

\* ------------------------------------------------------------------------
\* Loads on their own
\* ------------------------------------------------------------------------
\* the requests and responses of a session that only loads documents:
\* MaxLoadOps of them in all
MaxLoadOps == 4

LoadCount == opCount < MaxLoadOps /\ opCount' = opCount + 1

LoadFileChosen == LoadCount /\ ImportRequested
LoadQueryChanged == LoadCount /\ handleExampleQueryChange
LoadFileRead == LoadCount /\ ImportCompleted
LoadExampleFetched == LoadCount /\ ExampleCompleted

NextLoads ==
    \/ LoadFileChosen
    \/ LoadQueryChanged
    \/ LoadFileRead
    \/ LoadExampleFetched

SpecLoads == Init /\ [][NextLoads]_vars

\* ------------------------------------------------------------------------
\* Autofill on bounded interval lists
\* ------------------------------------------------------------------------
\* the rows an interval list is drawn from: the seed rows of App, exact and
\* near duplicates of the fifth, values at the tolerance around 1 and 2, a
\* value halfway between two slots, rows without a value, a disabled row
AutofillRows ==
    { [description |-> "Tonic", expression |-> "1", disabled |-> FALSE],
      [description |-> "Perfect fifth", expression |-> "3/2", disabled |-> FALSE],
      [description |-> "Octave", expression |-> "2", disabled |-> FALSE],
      [description |-> "Fourth below", expression |-> "3/4", disabled |-> FALSE],
      [description |-> "Fifth and 6e-7", expression |-> "1.5000006", disabled |-> FALSE],
      [description |-> "Fifth and 12e-7", expression |-> "1.5000012", disabled |-> FALSE],
      [description |-> "Near tonic", expression |-> "1.0000005", disabled |-> FALSE],
      [description |-> "Near octave", expression |-> "1.9999995", disabled |-> FALSE],
      [description |-> "Above tonic", expression |-> "1.00002", disabled |-> FALSE],
      [description |-> "Between slots", expression |-> "(2^(8/12)+2^(9/12))/2",
       disabled |-> FALSE],
      [description |-> "Broken", expression |-> "not-math", disabled |-> FALSE],
      [description |-> "Major third", expression |-> "5/4", disabled |-> TRUE] }

\* the interval lists of at most MaxAutofillRows different rows, in every
\* order, ids 1, 2, ...
AutofillLists ==
    UNION { { [k \in 1..n |-> createIntervalDefinition(k, rows[k].description,
                                                        rows[k].expression,
                                                        rows[k].disabled)] :
              rows \in {list \in [1..n -> AutofillRows] :
                           \A j, k \in 1..n : j # k => list[j] # list[k]} } :
            n \in 0..MaxAutofillRows }

\* the pitch table after edits of rows 0, 3 and 7 (handlePitchChange)
EditedPitches ==
    [index \in 0..(TOTAL_PITCHES - 1) |->
        CASE index = 0 -> createPitchDefinition(300, "Do", "1", TRUE)
          [] index = 3 -> createPitchDefinition(303, "", "not-math", FALSE)
          [] index = 7 -> createPitchDefinition(307, "old third", "5/4", FALSE)
          [] OTHER -> createPitchDefinition(300 + index, "", TwelfthPowerText(index), FALSE)]

PriorPitches == { getDefaultPitchDefinitions(100), EditedPitches }

InitAutofill ==
    /\ intervals \in AutofillLists
    /\ pitches \in PriorPitches
    /\ temperamentTitle = ""
    /\ temperamentDescription = ""
    /\ exampleQuery = ""
    /\ loadedExampleId = Null
    /\ keyRoot = 72
    /\ concertPitch = 44000
    /\ keyFrequency = deriveBaseFrequency(44000, 72)
    /\ inFlight = << >>
    /\ nextId = 400
    /\ lastOp = Op("App", << >>)
    /\ opCount = 0

\* the Autofill button, pressed any number of times
AutofillPressed == handleAutofill /\ UNCHANGED opCount

NextAutofill == AutofillPressed

SpecAutofill == InitAutofill /\ [][NextAutofill]_vars

\* ------------------------------------------------------------------------
\* Autofill on long interval lists
\* ------------------------------------------------------------------------
\* eighteen rows: the eleven equal-tempered steps, five more values inside
\* the octave, the tonic (never a candidate) and a fourth below, which
\* normalizes to the fifth
CrowdedRows ==
    [k \in 1..11 |-> [description |-> "Equal " \o TwelfthPowerText(k),
                      expression |-> TwelfthPowerText(k)]]
    \o << [description |-> "Perfect fifth", expression |-> "3/2"],
          [description |-> "Major third", expression |-> "5/4"],
          [description |-> "Flat fifth", expression |-> "1.49"],
          [description |-> "Above tonic", expression |-> "1.00002"],
          [description |-> "Between slots", expression |-> "(2^(8/12)+2^(9/12))/2"],
          [description |-> "Tonic", expression |-> "1"],
          [description |-> "Fourth below", expression |-> "3/4"] >>

\* three orders of the rows: as listed, reversed, and in steps of seven
CrowdedOrders ==
    LET n == Len(CrowdedRows)
    IN  { [k \in 1..n |-> k], [k \in 1..n |-> n + 1 - k], [k \in 1..n |-> (7 * k) % (n + 1)] }

\* the interval lists made of the first rows of an order, one of them
\* disabled or none, ids 1, 2, ...
CrowdedLists ==
    { [k \in 1..n |-> createIntervalDefinition(k, CrowdedRows[order[k]].description,
                                                CrowdedRows[order[k]].expression,
                                                k = off)] :
      order \in CrowdedOrders, n \in 0..Len(CrowdedRows), off \in 0..Len(CrowdedRows) }

InitCrowded ==
    /\ intervals \in CrowdedLists
    /\ pitches \in PriorPitches
    /\ temperamentTitle = ""
    /\ temperamentDescription = ""
    /\ exampleQuery = ""
    /\ loadedExampleId = Null
    /\ keyRoot = 72
    /\ concertPitch = 44000
    /\ keyFrequency = deriveBaseFrequency(44000, 72)
    /\ inFlight = << >>
    /\ nextId = 400
    /\ lastOp = Op("App", << >>)
    /\ opCount = 0

NextCrowded == AutofillPressed

SpecCrowded == InitCrowded /\ [][NextCrowded]_vars

\* ------------------------------------------------------------------------
\* normalizeToOctave on its own
\* ------------------------------------------------------------------------
\* the values given to normalizeToOctave: null, zero, a negative number and
\* the positive numbers m * 2^j / Scale, from 2^-24 to above 16, among them
\* the powers of two and values inside (1, 2)
NormalizeInputs ==
    {Null, Some(0), Some(-(3 * (Scale \div 2)))}
        \cup {Some(m * (2 ^ j)) : m \in 1..MaxMantissa, j \in 0..MaxShift}

InitNormalize ==
    /\ intervals = << >>
    /\ pitches = getDefaultPitchDefinitions(100)
    /\ temperamentTitle = ""
    /\ temperamentDescription = ""
    /\ exampleQuery = ""
    /\ loadedExampleId = Null
    /\ keyRoot = 72
    /\ concertPitch = 44000
    /\ keyFrequency = deriveBaseFrequency(44000, 72)
    /\ inFlight = << >>
    /\ nextId = 400
    /\ lastOp \in {Op("value", [value |-> value]) : value \in NormalizeInputs}
    /\ opCount = 0

\* a call of normalizeToOctave on the value drawn
NormalizeCalled ==
    /\ lastOp.name = "value"
    /\ lastOp' = Op("normalizeToOctave",
                    [value |-> lastOp.arg.value,
                     result |-> normalizeToOctave(lastOp.arg.value)])
    /\ UNCHANGED << intervals, pitches, metaVars, configVars, exampleVars, inFlight,
                    nextId, opCount >>

NextNormalize == NormalizeCalled

SpecNormalize == InitNormalize /\ [][NextNormalize]_vars

\* ------------------------------------------------------------------------
\* normalizeToOctave step by step
\* ------------------------------------------------------------------------
\* the arguments of a call: null, NaN, the two infinities, and the numbers
\* of NormalizeInputs
LoopInputs ==
    { [kind |-> kind, n |-> 0] : kind \in {"null", "NaN", "Infinity", "-Infinity"} }
        \cup { [kind |-> "number", n |-> Val(value)] : value \in NormalizeInputs \ {Null} }

\* a test that lets zero through
RejectedBelowZero(input) == input.kind # "number" \/ input.n < 0

\* normalizeToOctave: !Number.isFinite(value ?? NaN) || value === null || value <= 0
Rejected(input) == input.kind # "number" \/ input.n <= 0

\* the call in progress: its argument, the statement it is at ("entry",
\* "doubling", "halving" or "returned"), the local `normalized` and the value
\* returned
Call(input, pc, normalized, result) ==
    Op("normalizeToOctave call",
       [input |-> input, pc |-> pc, normalized |-> normalized, result |-> result])

InitLoop ==
    /\ intervals = << >>
    /\ pitches = getDefaultPitchDefinitions(100)
    /\ temperamentTitle = ""
    /\ temperamentDescription = ""
    /\ exampleQuery = ""
    /\ loadedExampleId = Null
    /\ keyRoot = 72
    /\ concertPitch = 44000
    /\ keyFrequency = deriveBaseFrequency(44000, 72)
    /\ inFlight = << >>
    /\ nextId = 400
    /\ lastOp \in {Call(input, "entry", 0, Null) : input \in LoopInputs}
    /\ opCount = 0

\* the test at the top and `let normalized = value`
GuardChecked ==
    /\ lastOp.arg.pc = "entry"
    /\ lastOp' = IF Rejected(lastOp.arg.input)
                 THEN Call(lastOp.arg.input, "returned", 0, Null)
                 ELSE Call(lastOp.arg.input, "doubling", lastOp.arg.input.n, Null)
    /\ UNCHANGED << intervals, pitches, metaVars, configVars, exampleVars, inFlight,
                    nextId, opCount >>

\* one test of `while (normalized < 1)`, with the body when it holds
DoublingTested ==
    /\ lastOp.arg.pc = "doubling"
    /\ lastOp' = IF lastOp.arg.normalized < Scale
                 THEN Call(lastOp.arg.input, "doubling", lastOp.arg.normalized * 2, Null)
                 ELSE Call(lastOp.arg.input, "halving", lastOp.arg.normalized, Null)
    /\ UNCHANGED << intervals, pitches, metaVars, configVars, exampleVars, inFlight,
                    nextId, opCount >>

\* one test of `while (normalized > 2)`, with the body when it holds, and
\* `return normalized` when it does not
HalvingTested ==
    /\ lastOp.arg.pc = "halving"
    /\ lastOp' = IF lastOp.arg.normalized > 2 * Scale
                 THEN Call(lastOp.arg.input, "halving", lastOp.arg.normalized \div 2, Null)
                 ELSE Call(lastOp.arg.input, "returned", lastOp.arg.normalized,
                           Some(lastOp.arg.normalized))
    /\ UNCHANGED << intervals, pitches, metaVars, configVars, exampleVars, inFlight,
                    nextId, opCount >>

NextLoop ==
    \/ GuardChecked
    \/ DoublingTested
    \/ HalvingTested

\* a call that has started keeps running: the steps are weakly fair
SpecLoop == InitLoop /\ [][NextLoop]_vars /\ WF_vars(NextLoop)

\* ------------------------------------------------------------------------
\* The tuning config under edits
\* ------------------------------------------------------------------------
\* what may be typed into the two frequency boxes: numbers, zero, a negative
\* number, nothing, and text that is no number
FrequencyTexts == {"432", "440", "256", "0", "-5", "", "abc"}

\* the values handleKeyChange may be given: notes inside and outside the
\* range, nothing, and text that is no number
KeyTexts == {"69", "75", "80", "60", "90", "", "abc"}

ConcertPitchTyped == (\E value \in FrequencyTexts : ConcertPitchEdit(value)) /\ UNCHANGED opCount
KeyFrequencyTyped == (\E value \in FrequencyTexts : KeyFrequencyEdit(value)) /\ UNCHANGED opCount
KeyChosen == (\E value \in KeyTexts : KeyEdit(value)) /\ UNCHANGED opCount

NextConfig ==
    \/ ConcertPitchTyped
    \/ KeyFrequencyTyped
    \/ KeyChosen

\* the three boxes of PitchConfig, edited any number of times
SpecConfig == Init /\ [][NextConfig]_vars

\* ------------------------------------------------------------------------
\* The derived view of the pitch table
\* ------------------------------------------------------------------------
\* expressions a pitch entry may store: numbers, nothing, text that is no
\* expression, a division by zero, zero and a negative number
StoredExpressions == {"1", "3/2", "4", "3/8", "", "not-math", "1/0", "0", "-3/2"}

\* pitch arrays given to computedPitches: the default table with any of the
\* expressions above in the locked row and in row 3
DerivedPitchArrays ==
    { [index \in 0..(TOTAL_PITCHES - 1) |->
          CASE index = 0 -> createPitchDefinition(500, "", tonic, TRUE)
            [] index = 3 -> createPitchDefinition(503, "", third, FALSE)
            [] OTHER -> getDefaultPitchDefinitions(500)[index]] :
      tonic \in StoredExpressions, third \in StoredExpressions }

InitDerived ==
    /\ intervals = << >>
    /\ pitches \in DerivedPitchArrays
    /\ temperamentTitle = ""
    /\ temperamentDescription = ""
    /\ exampleQuery = ""
    /\ loadedExampleId = Null
    /\ keyRoot \in {MIN_KEY_NOTE, 72}
    /\ concertPitch = 44000
    /\ keyFrequency = deriveBaseFrequency(44000, keyRoot)
    /\ inFlight = << >>
    /\ nextId = 600
    /\ lastOp = Op("App", << >>)
    /\ opCount = 0

\* a render: computedPitches is computed from the state
ViewComputed ==
    /\ lastOp.name = "App"
    /\ lastOp' = Op("computedPitches",
                    [view |-> computedPitchesOf(pitches, keyRoot,
                                                baseFrequencyOf(keyFrequency, concertPitch,
                                                                keyRoot))])
    /\ UNCHANGED << intervals, pitches, metaVars, configVars, exampleVars, inFlight,
                    nextId, opCount >>

NextDerived == ViewComputed

SpecDerived == InitDerived /\ [][NextDerived]_vars

\* ------------------------------------------------------------------------
\* The derived frequencies of documents the application can hold
\* ------------------------------------------------------------------------
\* expressions of two unlocked rows: ratios, text that is no expression, a
\* division by zero, zero and the empty text
FrequencyExpressions == {"3/2", "4", "3/8", "", "not-math", "1/0", "0"}

\* pitch arrays with the tonic row as every handler and load leaves it
FrequencyPitchArrays ==
    { [index \in 0..(TOTAL_PITCHES - 1) |->
          CASE index = 3 -> createPitchDefinition(503, "", third, FALSE)
            [] index = 7 -> createPitchDefinition(507, "", fifth, FALSE)
            [] OTHER -> getDefaultPitchDefinitions(500)[index]] :
      third \in FrequencyExpressions, fifth \in FrequencyExpressions }

\* configurations typed in the form or read from a snapshot, whose three
\* numbers are not validated beyond their type
InitFrequencies ==
    /\ intervals = << >>
    /\ pitches \in FrequencyPitchArrays
    /\ temperamentTitle = ""
    /\ temperamentDescription = ""
    /\ exampleQuery = ""
    /\ loadedExampleId = Null
    /\ keyRoot \in {62, MIN_KEY_NOTE, 72}
    /\ concertPitch \in {44000, 43200, 0, -44000}
    /\ keyFrequency \in {deriveBaseFrequency(44000, keyRoot), 25600, 0, -100}
    /\ inFlight = << >>
    /\ nextId = 600
    /\ lastOp = Op("App", << >>)
    /\ opCount = 0

NextFrequencies == ViewComputed

SpecFrequencies == InitFrequencies /\ [][NextFrequencies]_vars

\* ------------------------------------------------------------------------
\* Properties
\* ------------------------------------------------------------------------
\* the step taken is a run of handleAutofill
AutofillStep == lastOp'.name = "handleAutofill"

\* the description and the expression of a pitch or interval entry
Fields(entry) == << entry.description, entry.expression >>

\* an interval that may be placed: enabled, with a normalized value, and
\* further than the tolerance from 1 and from 2
Usable(interval) ==
    LET normalized == normalizeToOctave(resolveExpression(interval.expression).value)
    IN  /\ ~interval.disabled
        /\ ~IsNull(normalized)
        /\ ~(Abs(Val(normalized) - Scale) <= OCTAVE_EPSILON)
        /\ ~(Abs(Val(normalized) - 2 * Scale) <= OCTAVE_EPSILON)

\* the normalized value of a usable interval
NormalizedOf(interval) ==
    Val(normalizeToOctave(resolveExpression(interval.expression).value))

\* two usable intervals less than the tolerance apart
NearEqual(a, b) == Abs(NormalizedOf(a) - NormalizedOf(b)) <= OCTAVE_EPSILON

\* C1: in every reachable state pitch slot 0 is locked and stores the
\* expression "1", and so does every locked slot there is.
C1_TonicPinned ==
    /\ pitches[0].locked
    /\ pitches[0].expression = "1"
    /\ \A index \in DOMAIN pitches : pitches[index].locked => pitches[index].expression = "1"

\* C1 witness: the expression box of the locked row was edited
C1_Witness ==
    /\ lastOp.name = "handlePitchChange"
    /\ lastOp.arg.position = 0
    /\ "expression" \in DOMAIN lastOp.arg.patch

\* C2: the pitch list always has exactly twelve entries, slot 0 locked and
\* slots 1..11 unlocked.
C2_TwelvePitches ==
    /\ DOMAIN pitches = 0..11
    /\ pitches[0].locked
    /\ \A index \in 1..11 : ~pitches[index].locked

\* C2 witness: an import replaced the pitch list
C2_Witness ==
    /\ lastOp.name = "handleImportFromFile"
    /\ "text" \in DOMAIN lastOp.arg
    /\ IsNull(lastOp.thrown)
    /\ pitches[7].description = "Sol"

\* C3 as stated: autofill leaves description, expression, id and locked flag
\* of slot 0 as they were.
C3_TonicUntouched == [][AutofillStep => pitches'[0] = pitches[0]]_vars

\* C3 amended: autofill leaves expression, id and locked flag of slot 0 as
\* they were and clears its description.
C3_TonicKeptDescriptionCleared ==
    [][AutofillStep => pitches'[0] = [pitches[0] EXCEPT !.description = ""]]_vars

\* C3 witness: autofill ran on the table whose tonic row was described "Do"
C3_Witness ==
    /\ lastOp.name = "handleAutofill"
    /\ pitches[0].id = EditedPitches[0].id
    /\ pitches[0].description = ""

\* C4: the intervals autofill places are the selected candidates in
\* ascending order of normalized value; each goes to the unlocked slot, not
\* assigned before in the run, whose equal-tempered ratio 2^(i/12) is nearest
\* its normalized value, the lowest index winning a tie; the seed list
\* [Tonic "1", Perfect fifth "3/2"] puts the fifth in slot 7 and nothing else.
C4_NearestFreeSlot ==
    [][AutofillStep =>
        LET run == autofillRun(intervals, pitches)
            placed == run.placed
            Distance(i, c) == Abs(TwelfthPower[i] - c)
        IN  /\ [k \in DOMAIN placed |-> placed[k].interval.id]
                 = [k \in DOMAIN placed |->
                       selectedOf(sortOf(uniqueOf(candidatesOf(computedIntervalsOf(intervals)),
                                                  << >>), << >>))[k].id]
            /\ Len(placed) = Len(selectedOf(uniqueOf(candidatesOf(computedIntervalsOf(intervals)),
                                                     << >>)))
            /\ \A k \in DOMAIN placed :
                  LET c == Val(placed[k].interval.normalized)
                      slot == placed[k].slot
                      free == {i \in DOMAIN pitches : ~pitches[i].locked}
                                 \ {placed[j].slot : j \in 1..(k - 1)}
                  IN  /\ slot \in free
                      /\ \A i \in free :
                            \/ Distance(slot, c) < Distance(i, c)
                            \/ Distance(slot, c) = Distance(i, c) /\ slot <= i
                      /\ Fields(pitches'[slot]) = Fields(placed[k].interval)
                      /\ k > 1 => Val(placed[k - 1].interval.normalized) < c
            /\ [k \in DOMAIN intervals |-> << intervals[k].description,
                                             intervals[k].expression,
                                             intervals[k].disabled >>]
                  = << << "Tonic", "1", FALSE >>, << "Perfect fifth", "3/2", FALSE >> >>
               => \A i \in 1..11 :
                     Fields(pitches'[i]) = IF i = 7 THEN << "Perfect fifth", "3/2" >>
                                           ELSE << "", TwelfthPowerText(i) >>]_vars

\* C4 witness: autofill ran on the seed list and the fifth is in slot 7
C4_Witness ==
    /\ lastOp.name = "handleAutofill"
    /\ Len(intervals) = 2
    /\ intervals[1].expression = "1"
    /\ intervals[2].expression = "3/2"
    /\ Fields(pitches[7]) = << "Perfect fifth", "3/2" >>

\* C5: an interval that is disabled, or has no normalized value, or lies
\* within the tolerance of 1 or of 2, does not count: autofill gives the pitch
\* list it gives with that interval removed.
C5_FilteredIntervalsInert ==
    [][AutofillStep =>
        \A k \in DOMAIN intervals :
            ~Usable(intervals[k]) => pitches' = autofilled(Without(intervals, k), pitches)]_vars

\* C5 witness: autofill ran on a list holding the octave "2" and a fifth,
\* and placed the fifth
C5_Witness ==
    /\ lastOp.name = "handleAutofill"
    /\ \E k \in DOMAIN intervals : intervals[k].expression = "2"
    /\ Fields(pitches[7]) = << "Perfect fifth", "3/2" >>
    /\ pitches[11].expression = TwelfthPowerText(11)

\* what C6 says of the kept candidates: they are the usable intervals in list
\* order, one is dropped only for an earlier kept one within the tolerance,
\* and no two kept ones are within the tolerance of each other
KeptFirstOccurrences(kept) ==
    LET usable == {k \in DOMAIN intervals : Usable(intervals[k])}
        keptRows == {k \in DOMAIN intervals : \E u \in DOMAIN kept : kept[u].id = intervals[k].id}
    IN  /\ keptRows \subseteq usable
        /\ \A u, v \in DOMAIN kept :
              u < v => /\ FindIndex(intervals, kept[u].id) < FindIndex(intervals, kept[v].id)
                       /\ ~NearEqual(kept[u], kept[v])
        /\ \A k \in usable \ keptRows :
              \E j \in keptRows : j < k /\ NearEqual(intervals[j], intervals[k])

\* the rows of the interval list autofill wrote to a slot
PlacedRows(run) ==
    {k \in DOMAIN intervals : \E u \in DOMAIN run.placed : run.placed[u].interval.id = intervals[k].id}

\* C6 as stated: first occurrences are kept, and of two usable intervals
\* less than the tolerance apart only the earlier one can be placed.
C6_OnlyEarlierPlaced ==
    [][AutofillStep =>
        LET run == autofillRun(intervals, pitches)
            kept == uniqueOf(candidatesOf(computedIntervalsOf(intervals)), << >>)
        IN  /\ KeptFirstOccurrences(kept)
            /\ \A j, k \in DOMAIN intervals :
                  (j < k /\ Usable(intervals[j]) /\ Usable(intervals[k])
                         /\ NearEqual(intervals[j], intervals[k]))
                  => k \notin PlacedRows(run)]_vars

\* C6 amended: first occurrences are kept, and of two usable intervals less
\* than the tolerance apart the later one is not placed when the earlier one
\* is kept; the rows placed are rows kept.
C6_LaterDroppedWhenEarlierKept ==
    [][AutofillStep =>
        LET run == autofillRun(intervals, pitches)
            kept == uniqueOf(candidatesOf(computedIntervalsOf(intervals)), << >>)
            keptRows == {k \in DOMAIN intervals :
                            \E u \in DOMAIN kept : kept[u].id = intervals[k].id}
        IN  /\ KeptFirstOccurrences(kept)
            /\ PlacedRows(run) \subseteq keptRows
            /\ \A k \in PlacedRows(run) :
                  \E i \in 1..11 : Fields(pitches'[i]) = Fields(intervals[k])
            /\ \A j, k \in DOMAIN intervals :
                  (j < k /\ j \in keptRows /\ Usable(intervals[k])
                         /\ NearEqual(intervals[j], intervals[k]))
                  => k \notin PlacedRows(run)]_vars

\* C6 witness: of a fifth and 6e-7 listed before the fifth, the first is in
\* slot 7
C6_Witness ==
    /\ lastOp.name = "handleAutofill"
    /\ Len(intervals) = 2
    /\ intervals[1].expression = "1.5000006"
    /\ intervals[2].expression = "3/2"
    /\ Fields(pitches[7]) = << "Fifth and 6e-7", "1.5000006" >>

\* C7: after autofill a slot 1..11 either holds the description and
\* expression of a usable interval or its default 2^(i/12) with an empty
\* description; with no usable interval all eleven hold their default.
C7_UnmatchedSlotsDefault ==
    [][AutofillStep =>
        /\ \A i \in 1..11 :
              \/ Fields(pitches'[i]) = << "", TwelfthPowerText(i) >>
              \/ \E k \in DOMAIN intervals :
                    Usable(intervals[k]) /\ Fields(pitches'[i]) = Fields(intervals[k])
        /\ (\A k \in DOMAIN intervals : ~Usable(intervals[k]))
              => \A i \in 1..11 : Fields(pitches'[i]) = << "", TwelfthPowerText(i) >>
        /\ LET placed == autofillRun(intervals, pitches).placed
               written == {placed[u].slot : u \in DOMAIN placed}
           IN  \A i \in (1..11) \ written :
                  Fields(pitches'[i]) = << "", TwelfthPowerText(i) >>]_vars

\* C7 witness: autofill ran on a list without a usable interval over the
\* edited table, and rows 3 and 7 are back at their defaults
C7_Witness ==
    /\ lastOp.name = "handleAutofill"
    /\ Len(intervals) > 0
    /\ \A k \in DOMAIN intervals : ~Usable(intervals[k])
    /\ pitches[0].id = EditedPitches[0].id
    /\ pitches[3].expression = TwelfthPowerText(3)
    /\ Fields(pitches[7]) = << "", TwelfthPowerText(7) >>

\* C8: what autofill puts in slots 1..11 is the same from every prior pitch
\* state, and a second autofill changes nothing.  (The first press is the
\* step from a prior pitch state; a press after a press is the second
\* autofill.)
C8_CleanBaseline ==
    [][AutofillStep =>
        IF lastOp.name = "handleAutofill"
        THEN pitches' = pitches
        ELSE \A prior \in PriorPitches :
                LET result == autofilled(intervals, prior)
                IN  \A i \in 1..11 : Fields(pitches'[i]) = Fields(result[i])]_vars

\* C8 witness: autofill ran over the edited table and placed a fifth where
\* the edit had put a third
C8_Witness ==
    /\ lastOp.name = "handleAutofill"
    /\ pitches[0].id = EditedPitches[0].id
    /\ Fields(pitches[7]) = << "Perfect fifth", "3/2" >>

\* a load has just ended in failure
LoadFailed == ~IsNull(lastOp'.thrown)

\* C9: a load that fails (the file cannot be read, the fetch fails, or the
\* text is rejected) leaves the metadata, the tuning config, the interval
\* list and the pitch list exactly as they were.
C9_FailedLoadLeavesDocument == [][LoadFailed => UNCHANGED document]_vars

\* C9 witness: an import was rejected after the document had been edited
C9_Witness ==
    /\ lastOp.name = "handleImportFromFile"
    /\ "text" \in DOMAIN lastOp.arg
    /\ ~IsNull(lastOp.thrown)
    /\ ~IsNull(lastOp.arg.text)
    /\ Val(lastOp.arg.text).valid
    /\ temperamentTitle # ""

\* the six rules of the import in their order, as tests on a text
ViolatesRule(raw, rule) ==
    LET parsed == raw.parsed
        config == Prop(parsed, "config")
    IN  CASE rule = 1 -> ~raw.valid
          [] rule = 2 -> Prop(parsed, "schema") # JString(SNAPSHOT_SCHEMA)
          [] rule = 3 -> Prop(parsed, "version") # JNumber(SNAPSHOT_VERSION)
          [] rule = 4 -> \/ Prop(parsed, "intervals").t # "array"
                         \/ Prop(parsed, "intervals").items = << >>
          [] rule = 5 -> \/ Prop(parsed, "pitches").t # "array"
                         \/ Len(Prop(parsed, "pitches").items) # 12
          [] rule = 6 -> \E name \in {"keyRoot", "concertPitch", "keyFrequency"} :
                            Prop(config, name).t # "number"

\* the six errors, one per rule
RuleError ==
    << "File is not valid JSON.",
       "Unsupported temperament schema.",
       "Unsupported temperament version.",
       "Temperament must include at least one interval.",
       "Temperament must include exactly 12 pitch entries.",
       "Temperament config is missing required numeric values." >>

\* the rules a text violates; a text JSON.parse rejects violates the first
RulesViolated(raw) ==
    IF ~raw.valid THEN {1} ELSE {rule \in 2..6 : ViolatesRule(raw, rule)}

\* C10 as stated: a text that violates one rule or several is rejected with
\* the error of the first rule it violates, one of the six errors of the
\* import.
C10_FirstViolatedRuleReported ==
    (/\ lastOp.name = "handleImportFromFile"
     /\ "text" \in DOMAIN lastOp.arg
     /\ ~IsNull(lastOp.arg.text))
    => LET violated == RulesViolated(Val(lastOp.arg.text))
       IN  violated # {}
           => lastOp.thrown
                 = Some(RuleError[CHOOSE rule \in violated : \A other \in violated : rule <= other])

\* what a load of the exported text returns
Reloaded == deserializeTemperament(lastOp.arg.payload, nextId)

\* C11 as stated: the text of every export loads, and the loaded document
\* equals the exported one in metadata, config and, entry by entry in the
\* same order, the description, expression and flag of every interval and
\* pitch, but for slot 0's expression, which is "1".
C11_RoundTrip ==
    lastOp.name = "handleExportTemperament"
    => /\ Reloaded.ok
       /\ Reloaded.metadata = [title |-> temperamentTitle,
                               description |-> temperamentDescription]
       /\ Reloaded.config = [keyRoot |-> keyRoot, concertPitch |-> concertPitch,
                             keyFrequency |-> keyFrequency]
       /\ DOMAIN Reloaded.intervals = DOMAIN intervals
       /\ \A k \in DOMAIN intervals :
             /\ Fields(Reloaded.intervals[k]) = Fields(intervals[k])
             /\ Reloaded.intervals[k].disabled = intervals[k].disabled
       /\ DOMAIN Reloaded.pitches = DOMAIN pitches
       /\ \A index \in DOMAIN pitches :
             /\ Reloaded.pitches[index].description = pitches[index].description
             /\ Reloaded.pitches[index].locked = pitches[index].locked
             /\ Reloaded.pitches[index].expression
                   = IF index = 0 THEN "1" ELSE pitches[index].expression

\* the last handler was a load that succeeded
LoadSucceeded ==
    /\ lastOp.name \in {"handleImportFromFile", "loadExampleTemperament"}
    /\ "text" \in DOMAIN lastOp.arg
    /\ ~IsNull(lastOp.arg.text)
    /\ IsNull(lastOp.thrown)

\* the entries of the text of the load
TextEntries(name) == Prop(Val(lastOp.arg.text).parsed, name).items

\* the description and expression of every loaded interval and pitch are the
\* stored ones when those are strings and empty otherwise (slot 0's
\* expression is "1")
StringsCoerced ==
    LET Expected(entry, name) ==
            IF Prop(entry, name).t = "string" THEN Prop(entry, name).v ELSE ""
    IN  /\ \A k \in DOMAIN intervals :
              /\ intervals[k].description = Expected(TextEntries("intervals")[k], "description")
              /\ intervals[k].expression = Expected(TextEntries("intervals")[k], "expression")
        /\ \A index \in DOMAIN pitches :
              /\ pitches[index].description
                    = Expected(TextEntries("pitches")[index + 1], "description")
              /\ index > 0 => pitches[index].expression
                                 = Expected(TextEntries("pitches")[index + 1], "expression")

\* C12 as stated: after a load that succeeds a description or expression
\* that was no string is empty and a disabled value that was no boolean is
\* false.
C12_NonBooleanDisabledFalse ==
    LoadSucceeded
    => /\ StringsCoerced
       /\ \A k \in DOMAIN intervals :
             LET stored == Prop(TextEntries("intervals")[k], "disabled")
             IN  intervals[k].disabled = IF stored.t = "boolean" THEN stored.v ELSE FALSE

\* C12 amended: after a load that succeeds a description or expression that
\* was no string is empty, and a disabled value that was no boolean is false
\* when it was missing, null, 0 or the empty string and true otherwise.
C12_DisabledByTruthiness ==
    LoadSucceeded
    => /\ StringsCoerced
       /\ \A k \in DOMAIN intervals :
             LET stored == Prop(TextEntries("intervals")[k], "disabled")
             IN  intervals[k].disabled
                    = IF stored.t = "boolean" THEN stored.v
                      ELSE stored \notin {JUndefined, JNull, JNumber(0), JString("")}

\* C12 witness: an import of intervals with a number for a description, null
\* for an expression and "no" for disabled succeeded
C12_Witness ==
    /\ LoadSucceeded
    /\ TextEntries("intervals")[1] = JObject([description |-> JNumber(7),
                                              expression |-> JNull,
                                              disabled |-> JString("no")])
    /\ Fields(intervals[1]) = << "", "" >>
    /\ intervals[1].disabled
    /\ ~intervals[2].disabled

\* normalizeToOctave has returned for a positive value
NormalizedPositive ==
    /\ lastOp.name = "normalizeToOctave"
    /\ ~IsNull(lastOp.arg.value)
    /\ Val(lastOp.arg.value) > 0

\* n is a power of two (of the numbers of the model)
IsPowerOfTwo(n) == \E j \in 0..30 : n = 2 ^ j

\* C13: for a positive x the result lies in [1, 2] and is x times or over a
\* power of two.
C13_ClosedOctaveSamePitchClass ==
    NormalizedPositive
    => LET x == Val(lastOp.arg.value)
           r == lastOp.arg.result
       IN  /\ ~IsNull(r)
           /\ Scale <= Val(r) /\ Val(r) <= 2 * Scale
           /\ \E k \in 0..30 :
                 \/ x % (2 ^ k) = 0 /\ x \div (2 ^ k) = Val(r)
                 \/ Val(r) % (2 ^ k) = 0 /\ Val(r) \div (2 ^ k) = x

\* C13 witness: 12 came back as 1.5 and 3 * 2^-24 as 1.5
C13_Witness ==
    /\ NormalizedPositive
    /\ Val(lastOp.arg.value) \in {12 * Scale, 3}
    /\ lastOp.arg.result = Some(3 * (Scale \div 2))

\* C14 as stated: for a positive x the result r has 1 <= r < 2, powers of
\* two included.
C14_HalfOpenOctave ==
    NormalizedPositive
    => /\ ~IsNull(lastOp.arg.result)
       /\ Scale <= Val(lastOp.arg.result)
       /\ Val(lastOp.arg.result) < 2 * Scale

\* C14 amended: for a positive x the result r has 1 <= r <= 2; r is 2
\* exactly when x is a power of two from 2 up (2, 4, 8, ...), and r is 1
\* exactly when x is a power of two up to 1.
C14_TwoForPowersOfTwoAboveOne ==
    NormalizedPositive
    => LET x == Val(lastOp.arg.value)
           r == lastOp.arg.result
       IN  /\ ~IsNull(r)
           /\ Scale <= Val(r) /\ Val(r) <= 2 * Scale
           /\ Val(r) = 2 * Scale <=> (IsPowerOfTwo(x) /\ x >= 2 * Scale)
           /\ Val(r) = Scale <=> (IsPowerOfTwo(x) /\ x <= Scale)

\* C14 witness: 4 came back as 2
C14_Witness ==
    /\ NormalizedPositive
    /\ lastOp.arg.value = Some(4 * Scale)
    /\ lastOp.arg.result = Some(2 * Scale)

\* C15: normalizing the result again returns the result, and a value in
\* [1, 2] comes back unchanged.
C15_Idempotent ==
    NormalizedPositive
    => /\ normalizeToOctave(lastOp.arg.result) = lastOp.arg.result
       /\ (Scale <= Val(lastOp.arg.value) /\ Val(lastOp.arg.value) <= 2 * Scale)
             => lastOp.arg.result = lastOp.arg.value

\* C15 witness: 5/4, 1 and 2 came back as they were
C15_Witness ==
    /\ NormalizedPositive
    /\ Val(lastOp.arg.value) \in {5 * (Scale \div 4), Scale, 2 * Scale}
    /\ lastOp.arg.result = lastOp.arg.value

\* C16 as stated: in every state keyFrequency is concertPitch times
\* 2^((keyRoot - 69) / 12) (to a tenth of a hertz, which is more than the
\* arithmetic on hundredths loses).
C16_FrequenciesConsistent ==
    Abs(keyFrequency - deriveBaseFrequency(concertPitch, keyRoot)) <= 10

\* C17 as stated: in every state keyRoot is a whole number from MIN_KEY_NOTE
\* to MAX_KEY_NOTE and both frequencies are positive.
C17_ConfigWellFormed ==
    /\ keyRoot \in MIN_KEY_NOTE..MAX_KEY_NOTE
    /\ concertPitch > 0
    /\ keyFrequency > 0

\* the texts C18 names: no number (the empty text among them) for each of
\* the three boxes, and zero or a negative number for the two frequencies
IgnoredEdit(name, value) ==
    \/ value \in {"", "abc"}
    \/ /\ name \in {"handleConcertPitchChange", "handleKeyFrequencyChange"}
       /\ value \in {"0", "-5"}

LockedIds == {pitches[index].id : index \in {i \in DOMAIN pitches : pitches[i].locked}}

\* C19: a pitch drag whose source or destination is the locked slot changes
\* nothing in the pitch list, and no pitch drag changes slot 0's id, its
\* lock or its expression "1".
C19_LockedDragNoOp ==
    [][lastOp'.name = "handlePitchDragEnd"
       => /\ (\/ lastOp'.arg.active \in LockedIds
              \/ (~IsNull(lastOp'.arg.over) /\ Val(lastOp'.arg.over) \in LockedIds))
             => pitches' = pitches
          /\ pitches'[0].id = pitches[0].id
          /\ pitches'[0].locked
          /\ pitches'[0].expression = "1"]_vars

\* C19 witness: a row was dropped on the tonic row of an edited table
C19_Witness ==
    /\ lastOp.name = "handlePitchDragEnd"
    /\ lastOp.arg.over = Some(pitches[0].id)
    /\ lastOp.arg.active = pitches[3].id
    /\ pitches[7].expression = "3/2"

\* C20: the view of a locked slot reports resolved 1, normalized 1 and no
\* error, whatever expression the slot stores.
C20_LockedViewIsOne ==
    lastOp.name = "computedPitches"
    => \A index \in DOMAIN pitches :
          pitches[index].locked
          => /\ lastOp.arg.view[index].resolved = Some(Scale)
             /\ lastOp.arg.view[index].normalized = Some(Scale)
             /\ lastOp.arg.view[index].error = Null

\* C20 witness: the view was computed for a locked row that stores text
\* which is no expression, and for an unlocked row with the same text, which
\* reports the error
C20_Witness ==
    /\ lastOp.name = "computedPitches"
    /\ pitches[0].locked
    /\ pitches[0].expression = "not-math"
    /\ pitches[3].expression = "not-math"
    /\ lastOp.arg.view[0].resolved = Some(Scale)
    /\ lastOp.arg.view[3].error = Some("Unable to parse expression")

\* the view of the pitch table computed in the last step
View == lastOp.arg.view

\* C21: the MIDI-standard frequency of slot i is 440 * 2^((keyRoot + i - 69) / 12)
\* whatever the concert pitch, the key-note frequency and the expressions are;
\* with keyRoot 69 and concert pitch 440 slot 0's standard frequency is
\* exactly 440; and a slot whose target equals its standard frequency has a
\* cents offset of 0.
C21_StandardFrequency ==
    lastOp.name = "computedPitches"
    => /\ \A index \in DOMAIN pitches :
            /\ View[index].standardFrequency
                 = TimesRatio(44000, PowerOfTwoTwelfths(keyRoot + index - 69))
            /\ View[index].targetFrequency = Some(View[index].standardFrequency)
               => View[index].centsOffset = Some(0)
       /\ keyRoot = 69 /\ concertPitch = 44000
          => View[0].standardFrequency = 44000

\* C21 witness: the view was computed for keyRoot 69 and concert pitch 440;
\* slot 0 has target and standard frequency 440 and offset 0, and the slot
\* of the fifth is off its standard frequency
C21_Witness ==
    /\ lastOp.name = "computedPitches"
    /\ keyRoot = 69
    /\ concertPitch = 44000
    /\ View[0].standardFrequency = 44000
    /\ View[0].targetFrequency = Some(44000)
    /\ View[0].centsOffset = Some(0)
    /\ pitches[7].expression = "3/2"
    /\ View[7].centsOffset # Null
    /\ View[7].centsOffset # Some(0)

\* the base frequency as the specification words it
BaseOfState ==
    IF keyFrequency > 0 THEN keyFrequency
    ELSE TimesRatio(concertPitch, PowerOfTwoTwelfths(keyRoot - 69))

\* the pitch array with the default entry in one slot
WithDefaultAt(array, slot) ==
    [array EXCEPT ![slot] = getDefaultPitchDefinitions(500)[slot]]

\* the expression of the slot is empty or has an error
EmptyOrErrored(index) ==
    Trim(pitches[index].expression) = "" \/ View[index].error # Null

NearestSlot(c) ==
    CHOOSE i \in 1..11 :
        \A j \in 1..11 :
            \/ Abs(TwelfthPower[i] - c) < Abs(TwelfthPower[j] - c)
            \/ Abs(TwelfthPower[i] - c) = Abs(TwelfthPower[j] - c) /\ i <= j

\* C22 as stated: of two candidates autofill places, the one processed
\* earlier (the smaller normalized value) gets the lower slot index.
C22_SlotsClaimedMonotonically ==
    [][AutofillStep =>
        LET placed == autofillRun(intervals, pitches).placed
        IN  \A j, k \in DOMAIN placed :
               j < k => placed[j].slot < placed[k].slot]_vars

\* C22 amended: when the placed candidates have pairwise different nearest
\* slots, each takes its nearest slot (the lowest index among several), and
\* the candidate with the smaller normalized value gets the lower slot index.
C22_MonotoneWhenNearestSlotsDiffer ==
    [][AutofillStep =>
        LET placed == autofillRun(intervals, pitches).placed
            nearest == [k \in DOMAIN placed |->
                           NearestSlot(Val(placed[k].interval.normalized))]
        IN  (\A j, k \in DOMAIN placed : j # k => nearest[j] # nearest[k])
            => \A k \in DOMAIN placed :
                  /\ placed[k].slot = nearest[k]
                  /\ Fields(pitches'[nearest[k]]) = Fields(placed[k].interval)
                  /\ \A j \in DOMAIN placed :
                        Val(placed[j].interval.normalized)
                           < Val(placed[k].interval.normalized)
                        => placed[j].slot < placed[k].slot]_vars

\* C22 witness: autofill ran on three rows listed in descending order whose
\* nearest slots are 8, 7 and 1, and each is in its slot
C22_Witness ==
    /\ lastOp.name = "handleAutofill"
    /\ Len(intervals) = 3
    /\ intervals[1].expression = "(2^(8/12)+2^(9/12))/2"
    /\ intervals[2].expression = "3/2"
    /\ intervals[3].expression = "1.00002"
    /\ Fields(pitches[8]) = Fields(intervals[1])
    /\ Fields(pitches[7]) = Fields(intervals[2])
    /\ Fields(pitches[1]) = Fields(intervals[3])

\* the interval list with the entries k and k + 1 exchanged, as a drag of
\* one over the other leaves it (handleIntervalDragEnd)
Exchanged(list, k) == arrayMove(list, k, k + 1)

\* no two usable intervals of the list have normalized values within the
\* tolerance of each other
NoNearEqualCandidates(list) ==
    \A j, k \in DOMAIN list :
        (j # k /\ Usable(list[j]) /\ Usable(list[k])) => ~NearEqual(list[j], list[k])

\* C25: when no two usable intervals have normalized values within the
\* tolerance of each other, autofill gives the same pitch list for every
\* order of the interval list.  The lists of the specification hold their
\* rows in every order, so that the exchanges of two neighbours, applied to
\* each of them, reach every permutation.
C25_OrderIrrelevantWithoutTies ==
    [][(AutofillStep /\ NoNearEqualCandidates(intervals)) =>
        \A k \in 1..(Len(intervals) - 1) :
            autofilled(Exchanged(intervals, k), pitches) = pitches']_vars

\* C25 witness: autofill ran on a list of three usable rows in descending
\* order, no two of them within the tolerance, and placed all three
C25_Witness ==
    /\ lastOp.name = "handleAutofill"
    /\ Len(intervals) = 3
    /\ intervals[1].expression = "(2^(8/12)+2^(9/12))/2"
    /\ intervals[2].expression = "1.5000012"
    /\ intervals[3].expression = "3/2"
    /\ NoNearEqualCandidates(intervals)
    /\ Fields(pitches[7]) = Fields(intervals[3])
    /\ Fields(pitches[6]) = Fields(intervals[2])
    /\ Fields(pitches[8]) = Fields(intervals[1])

\* the rows of the interval list that are deduplicated candidates
KeptRows ==
    LET kept == uniqueOf(candidatesOf(computedIntervalsOf(intervals)), << >>)
    IN  {k \in DOMAIN intervals : \E u \in DOMAIN kept : kept[u].id = intervals[k].id}

\* the slots of a pitch list that hold the description and expression of a
\* row among rows
SlotsHolding(list, rows) ==
    {i \in DOMAIN list : \E k \in rows : Fields(list[i]) = Fields(intervals[k])}

\* C23: autofill places at most 11 candidates, and they are the first 11 of
\* the deduplicated candidates in ascending order of normalized value: with
\* more than 11, the 11 with the smallest values are placed and the
\* description and expression of each larger one reach no slot.
C23_ElevenSmallestPlaced ==
    [][AutofillStep =>
        LET placedRows == PlacedRows(autofillRun(intervals, pitches))
            Smaller(k) == {j \in KeptRows :
                              NormalizedOf(intervals[j]) < NormalizedOf(intervals[k])}
        IN  /\ Cardinality(placedRows) <= 11
            /\ placedRows \subseteq KeptRows
            /\ \A k \in KeptRows :
                  /\ k \in placedRows <=> Cardinality(Smaller(k)) < 11
                  /\ k \in placedRows <=> SlotsHolding(pitches', {k}) # {}]_vars

\* C23 witness: autofill ran on a list with 16 deduplicated candidates in
\* the reversed order; the major third, among the 11 smallest, is in a slot
\* and the largest step, 2^(11/12), is in none
C23_Witness ==
    /\ lastOp.name = "handleAutofill"
    /\ Cardinality(KeptRows) = 16
    /\ intervals[1].expression = "3/4"
    /\ \E k \in KeptRows :
          /\ intervals[k].expression = "5/4"
          /\ SlotsHolding(pitches, {k}) # {}
    /\ \E k \in KeptRows :
          /\ intervals[k].expression = TwelfthPowerText(11)
          /\ SlotsHolding(pitches, {k}) = {}

\* C24: in one run of autofill no slot is assigned to two candidates and the
\* locked slot 0 is no target: the candidates placed are in different slots
\* among 1..11, and the number of slots holding a candidate's description and
\* expression is the smaller of 11 and the number of deduplicated candidates,
\* so that none of the first 11 is skipped.
C24_DistinctSlotsNoneSkipped ==
    [][AutofillStep =>
        LET placed == autofillRun(intervals, pitches).placed
            expected == IF Cardinality(KeptRows) < 11 THEN Cardinality(KeptRows) ELSE 11
        IN  /\ \A j, k \in DOMAIN placed : j # k => placed[j].slot # placed[k].slot
            /\ \A k \in DOMAIN placed :
                  /\ placed[k].slot \in 1..11
                  /\ ~pitches[placed[k].slot].locked
                  /\ Fields(pitches'[placed[k].slot]) = Fields(placed[k].interval)
            /\ Len(placed) = expected
            /\ Cardinality(SlotsHolding(pitches', KeptRows)) = expected
            /\ 0 \notin SlotsHolding(pitches', KeptRows)]_vars

\* C24 witness: autofill ran on a list with 12 deduplicated candidates and
\* the 11 unlocked slots hold 11 of them; the candidate just above 1, whose
\* nearest ratio is that of the locked slot, is in slot 1
C24_Witness ==
    /\ lastOp.name = "handleAutofill"
    /\ Cardinality(KeptRows) = 12
    /\ SlotsHolding(pitches, KeptRows) = 1..11
    /\ pitches[1].expression = "1.00002"
    /\ pitches[0].expression = "1"

\* the slot of the pitch with the id given, before the step
SlotOf(id) == CHOOSE index \in DOMAIN pitches : pitches[index].id = id

\* the step is a pitch drag from an unlocked slot to another unlocked slot
UnlockedDragStep ==
    /\ lastOp'.name = "handlePitchDragEnd"
    /\ ~IsNull(lastOp'.arg.over)
    /\ lastOp'.arg.active # Val(lastOp'.arg.over)
    /\ lastOp'.arg.active \notin LockedIds
    /\ Val(lastOp'.arg.over) \notin LockedIds

\* C26: a pitch drag between two unlocked slots moves only the pairs of
\* description and expression: the pair of the source slot ends in the
\* destination slot, the pairs between them move one slot towards the
\* source, the other slots keep theirs, every pair is in as many of the
\* slots 1..11 as before, and every slot keeps its id and its lock (its
\* position, and so its MIDI note, is its index).
C26_ReorderMovesPairsOnly ==
    [][UnlockedDragStep =>
        LET from == SlotOf(lastOp'.arg.active)
            to == SlotOf(Val(lastOp'.arg.over))
            low == IF from < to THEN from ELSE to
            high == IF from < to THEN to ELSE from
        IN  /\ Fields(pitches'[to]) = Fields(pitches[from])
            /\ \A index \in (low..high) \ {to} :
                  Fields(pitches'[index])
                     = Fields(pitches[IF from < to THEN index + 1 ELSE index - 1])
            /\ \A index \in DOMAIN pitches \ (low..high) :
                  Fields(pitches'[index]) = Fields(pitches[index])
            /\ \A index \in 1..11 :
                  Cardinality({i \in 1..11 : Fields(pitches'[i]) = Fields(pitches[index])})
                     = Cardinality({i \in 1..11 : Fields(pitches[i]) = Fields(pitches[index])})
            /\ DOMAIN pitches' = DOMAIN pitches
            /\ \A index \in DOMAIN pitches :
                  /\ pitches'[index].id = pitches[index].id
                  /\ pitches'[index].locked = pitches[index].locked]_vars

\* C26 witness: the row of slot 1 of the default table was dropped on the
\* row of slot 3: slot 3 holds the expression of slot 1, slots 1 and 2 those
\* of slots 2 and 3, and the ids are where they were
C26_Witness ==
    /\ lastOp.name = "handlePitchDragEnd"
    /\ lastOp.arg.active = pitches[1].id
    /\ lastOp.arg.over = Some(pitches[3].id)
    /\ pitches[1].expression = TwelfthPowerText(2)
    /\ pitches[2].expression = TwelfthPowerText(3)
    /\ pitches[3].expression = TwelfthPowerText(1)
    /\ pitches[3].id = 6

\* C28: every call of normalizeToOctave returns: a null, non-finite, zero or
\* negative argument returns null at the test on entry, before either
\* loop, and for a positive finite argument the doubling loop and then the
\* halving loop come to an end.
C28_Terminates ==
    /\ <>(lastOp.arg.pc = "returned")
    /\ [][(lastOp.arg.pc = "entry"
            /\ (lastOp.arg.input.kind # "number" \/ lastOp.arg.input.n <= 0))
           => (lastOp'.arg.pc = "returned" /\ lastOp'.arg.result = Null)]_vars
    /\ [][(lastOp.arg.pc = "entry"
            /\ lastOp.arg.input.kind = "number" /\ lastOp.arg.input.n > 0)
           => lastOp'.arg.pc = "doubling"]_vars

\* C28 witness: the call on 3 * 2^-24 has returned 3 * 2^-1, after 23
\* doublings, which is what normalizeToOctave gives for it
C28_Witness ==
    /\ lastOp.arg.pc = "returned"
    /\ lastOp.arg.input = [kind |-> "number", n |-> 3]
    /\ lastOp.arg.result = Some(3 * (Scale \div 2))
    /\ lastOp.arg.result = normalizeToOctave(Some(3))

\* the state is the one a load left when it applied its document
LoadApplied ==
    /\ lastOp.name \in {"handleImportFromFile", "loadExampleTemperament"}
    /\ "request" \in DOMAIN lastOp.arg
    /\ IsNull(lastOp.thrown)

\* C29: when two loads are in flight together, the document and
\* loadedExampleId after both responses are those of the load requested
\* last: the response to a request made earlier, arriving after the load
\* requested later has applied its document, changes neither.  (request is
\* the place of the answered request among those in flight, oldest first.)
C29_LatestRequestWins ==
    [][(/\ LoadApplied
        /\ lastOp.arg.request > 1
        /\ LoadApplied'
        /\ inFlight' = Without(inFlight, lastOp'.arg.request)
        /\ lastOp'.arg.request < lastOp.arg.request)
       => /\ document' = document
          /\ loadedExampleId' = loadedExampleId]_vars

\* C30: the text handleExportTemperament produces for the live document is a
\* text deserializeTemperament accepts, whatever edits of intervals, pitches
\* and config and whatever autofill runs led to the document, the deletion of
\* every interval among them.
C30_ExportAlwaysImports ==
    lastOp.name = "handleExportTemperament"
    => deserializeTemperament(lastOp.arg.payload, nextId).ok

====
